---------------------------- MODULE Spec2Model ----------------------------
(***************************************************************************)
(* The asynchronous detection-request engine of ball-vision-seeker.        *)
(*                                                                         *)
(* The repository holds three versions of the class BallDetectionEngine:   *)
(*   "worker"  src/src/components/AdvancedSoccerDetector.tsx:757-935       *)
(*             (Web Worker + pending map + 30 s timers, with an in-process *)
(*             fallback when there is no worker),                          *)
(*   "remote"  src/src/components/BallDetectionEngine.tsx:11-196           *)
(*             (Roboflow HTTP call + pending map + 30 s timers),           *)
(*   "legacy"  src/src/components/BallDetectionEngine.tsx:208-404          *)
(*             (in-process simulated detection, no pending map).           *)
(* An engine instance is one of them; Init chooses which (variant).        *)
(*                                                                         *)
(* Main-thread handlers run to completion (the JS event loop), so every    *)
(* handler is one action.  detectBalls of the worker engine is executed    *)
(* statement by statement (pc, DetectBallsProgram) because the worker is a *)
(* second thread that really runs between its statements; all other        *)
(* main-thread handlers wait for pc = 0.                                   *)
(*                                                                         *)
(* Strings built from template literals are sequences of their fragments;  *)
(* the empty string is << >>.  Optional message fields are sequences of    *)
(* length 0 (absent) or 1 (present).  Not modelled: DetectionResult.id     *)
(* (random), processedAt (wall clock), the pixels of the annotated image.  *)
(***************************************************************************)
EXTENDS Integers, Sequences, FiniteSets, TLC

\* ------------------------------------------------------------------ bounds
\* number of detectBalls calls made on the engine
MaxCalls == 2

\* --------------------------------------------------------------- constants
\* const timeout = 30000
TimeoutMs == 30000

\* --------------------------------------------------------------- parameters
\* A params object is a function from the names of the fields it has to
\* numbers; dp is in tenths (dp = 1.5 is 15), every other field is an integer.
\* the parameters of the engine's test (AdvancedSoccerDetector.tsx lines 659-667)
TestParams ==
  [minDistance |-> 60, cannyThreshold |-> 120, circleThreshold |-> 35, minRadius |-> 15,
   maxRadius |-> 110, blurKernelSize |-> 7, dp |-> 15]
\* the initial parameters of the UI (AdvancedSoccerDetector.tsx lines 107-115)
DefaultParams ==
  [minDistance |-> 50, cannyThreshold |-> 100, circleThreshold |-> 30, minRadius |-> 10,
   maxRadius |-> 100, blurKernelSize |-> 5, dp |-> 10]

\* kernel sizes a caller may hand over: negative, zero, odd and even
MaxKernel == 5
KernelSizes == (-1)..MaxKernel

\* a params object without the fields in `absent`
Without(params, absent) == [f \in DOMAIN params \ absent |-> params[f]]

\* params objects a caller may hand over: the kernel size under the name of
\* DetectionParams (blurKernelSize) or of ColorFilterParams (blurKernel) or
\* under neither, a minimum radius of zero, either dp
ParamsSets ==
  { Without(p, absent) :
      p \in [minDistance : {60}, cannyThreshold : {120}, circleThreshold : {35},
            minRadius : {0, 15}, maxRadius : {110}, blurKernelSize : KernelSizes,
            blurKernel : {3, 4}, dp : {10, 15}],
      absent \in SUBSET {"blurKernelSize", "blurKernel"} }

\* the requests made with them
ParamInputs ==
  { [imageUrl |-> <<"blob:", "a">>, fileName |-> "a.jpg", params |-> p] : p \in ParamsSets }

\* ------------------------------------------------------------------ inputs
\* (imageUrl, fileName) pairs the caller submits: an object URL and a remote URL;
\* a URL is its scheme followed by the rest
Inputs ==
  { [imageUrl |-> <<"blob:", "a">>, fileName |-> "a.jpg", params |-> TestParams],
    [imageUrl |-> <<"https:", "//h/b.png">>, fileName |-> "b.png", params |-> DefaultParams] }

\* width and height of the decoded image (the 200 x 150 image of the engine's tests)
ImageWidth == 200
ImageHeight == 150

\* what cv.HoughCircles may leave in `circles`: none, or the circle of the tests
CircleLists ==
  { << >>, << [x |-> 10, y |-> 20, radius |-> 5] >> }

\* longer outputs of cv.HoughCircles: the two circles of the engine's test
\* (AdvancedSoccerDetector.tsx lines 617-620) in either order, and one circle
\* reported twice
TestCircleLists ==
  CircleLists \cup
  { << [x |-> 10, y |-> 20, radius |-> 5], [x |-> 30, y |-> 40, radius |-> 15] >>,
    << [x |-> 30, y |-> 40, radius |-> 15], [x |-> 10, y |-> 20, radius |-> 5] >>,
    << [x |-> 10, y |-> 20, radius |-> 5], [x |-> 10, y |-> 20, radius |-> 5] >> }

\* values of Math.random(), in thousandths
RandomDraws == {500}

\* ways the worker's try block may throw: the image cannot be fetched, new
\* cv.Mat() throws for gray, cv.cvtColor throws, the canvas cannot be encoded
HandlerFailures == {"fetch", "mat", "cv", "blob"}
\* the failures drawn when the worker runs under the engine: one before the
\* native handles are allocated and one after
WorkerFailures == {"fetch", "blob"}

\* circles (centre and radius, in pixels) and image sizes a conversion is made of
MaxCentre == 30
Circles ==
  [x : {0, 10, MaxCentre}, y : {0, 20, MaxCentre + 10}, radius : {1, 5, 15},
   confidence : {<<875, 1000>>}]
ImageSizes == {<<ImageWidth, ImageHeight>>, <<640, 480>>, <<3, 7>>}
\* no conversion is being looked at
NoConversion == [d |-> << >>, width |-> 0, height |-> 0, detection |-> << >>]

\* names of the files of a bulk upload (one of them spells a phrase the loop
\* looks for in error messages), and the batches a user may drop
FileNames == {"file1.jpg", "Roboflow API error.png"}
Batches == UNION {[1..n -> FileNames] : n \in 0..MaxCalls}
\* the component after its first render: nothing is being processed and
\* processBulkImages has not run
NoBulk ==
  [mounted |-> TRUE, isProcessing |-> FALSE, results |-> << >>, single |-> FALSE,
   state |-> "idle", files |-> << >>, i |-> 0, call |-> 0, created |-> << >>,
   revoked |-> << >>, newResults |-> << >>, successfulUploads |-> 0,
   aFileFailed |-> FALSE, summary |-> << >>]

\* the two worker scripts of the repository
WorkerScripts == {"workers/opencv.worker.ts", "types/opencv.d.ts"}

\* what the inference endpoint may answer in `predictions`
PredictionLists ==
  { << >>,
    << [x |-> 100, y |-> 75, width |-> 20, height |-> 30, confidence |-> <<900, 1000>>] >> }

\* HTTP statuses of the inference endpoint, with their status texts
HttpStatuses == {200, 500}
StatusText(st) == IF st = 200 THEN "OK" ELSE "Internal Server Error"

\* keys handed to setApiKey, or found in localStorage by the constructor; the
\* callers never pass an empty key (RoboflowApiKeyInput.tsx line 28)
ApiKeys == { <<"key-1">> }

\* message of the ErrorEvent handed to worker.onerror ("" is << >>)
FaultMessages == { << >>, <<"Script error.">> }

VARIABLES
  variant,        \* which BallDetectionEngine this instance is
  worker,         \* this.worker: "worker" or "null"
  workerThread,   \* the worker thread itself: "none", "running", "terminated"
  cvReady,        \* opencv.worker.ts cvReady
  workerScript,   \* which worker script the worker thread runs
  workersCreated, \* number of Worker objects this engine has constructed
  conversion,     \* one circle d, the image size and the Detection made of them
  cvCalls,        \* the arguments each handler run has passed to cv.GaussianBlur and cv.HoughCircles
  bulk,           \* the run of processBulkImages of the component that owns the engine
  mats,           \* the native handles (cv.Mat) that are allocated and not deleted
  requests,       \* this.requests: requestId -> PendingRequest
  timers,         \* armed setTimeout handles (the call that armed them)
  nextRequestId,  \* this.nextRequestId
  pc,             \* next statement of the detectBalls call in progress, 0 if none
  cur,            \* the call detectBalls is executing
  calls,          \* every detectBalls call made so far
  settlements,    \* per call, the invocations of its promise's resolve / reject
  flow,           \* per call, the stage of its in-process asynchronous work
  toWorker,       \* request messages posted to the worker, not yet received
  jobs,           \* request messages the worker is handling
  fromWorker,     \* response messages posted by the worker, in flight
  roboflowApiKey, \* this.roboflowApiKey (<< >> is null)
  fetchCalls      \* number of fetch calls made to the inference endpoint

engineVars == <<worker, requests, timers, nextRequestId, settlements>>
vars == <<variant, worker, workerThread, cvReady, workerScript, workersCreated, conversion, cvCalls,
          bulk, mats, requests, timers, nextRequestId,
          pc, cur, calls, settlements, flow, toWorker, jobs, fromWorker,
          roboflowApiKey, fetchCalls>>

\* ----------------------------------------------------------------- helpers
\* the request id does not depend on the counter
RequestIdConstant(n) == <<"req-", 0>>

\* `req-${n}`
RequestId(n) == <<"req-", n>>
NoId == << >>

\* a || b on strings
OrElse(a, b) == IF a = << >> THEN b ELSE a

Min(S) == CHOOSE x \in S : \A y \in S : x <= y

\* a map without one key (Map.delete)
MapDelete(m, k) == [x \in DOMAIN m \ {k} |-> m[x]]
\* a map with one key set (Map.set)
MapSet(m, k, v) == [x \in DOMAIN m \cup {k} |-> IF x = k THEN v ELSE m[x]]
EmptyMap == [x \in {} |-> 0]

\* a number as a fraction
Frac(n, d) == <<n, d>>

Resolve(value) == [kind |-> "resolve", value |-> <<value>>, error |-> << >>]
Reject(err) == [kind |-> "reject", value |-> << >>, error |-> <<err>>]
Error(name, message) == [name |-> name, message |-> message]

\* settlements after calling the resolve / reject closures of call c with outcome o
Settle(s, c, o) == [s EXCEPT ![c] = Append(@, o)]

\* settlements after pending.reject(err) for every entry of the map
RECURSIVE RejectEach(_, _, _)
RejectEach(s, cs, err) ==
  IF cs = {} THEN s
  ELSE LET c == Min(cs) IN RejectEach(Settle(s, c, Reject(err)), cs \ {c}, err)

Promises(m) == {m[k].promise : k \in DOMAIN m}
Timers(m) == {m[k].timer : k \in DOMAIN m}

\* ------------------------------------------------- worker engine: messages
\* the message detectBalls posts (lines 829-834)
RequestMessage(c) ==
  [id |-> calls[c].requestId, imageUrl |-> calls[c].imageUrl, fileName |-> calls[c].fileName,
   params |-> calls[c].params]

\* the bbox placed at the centre of the circle instead of its corner
ToDetectionCentre(d, w, h) ==
  [confidence |-> d.confidence,
   bbox |-> [x |-> Frac(d.x, w), y |-> Frac(d.y, h),
             width |-> Frac(d.radius * 2, w), height |-> Frac(d.radius * 2, h)]]

\* the bbox as wide and high as the radius instead of the diameter
ToDetectionRadiusWide(d, w, h) ==
  [confidence |-> d.confidence,
   bbox |-> [x |-> Frac(d.x - d.radius, w), y |-> Frac(d.y - d.radius, h),
             width |-> Frac(d.radius, w), height |-> Frac(d.radius, h)]]

\* bbox of one circle (opencv.worker.ts lines 207-215)
ToDetection(d, w, h) ==
  [confidence |-> d.confidence,
   bbox |-> [x |-> Frac(d.x - d.radius, w), y |-> Frac(d.y - d.radius, h),
             width |-> Frac(d.radius * 2, w), height |-> Frac(d.radius * 2, h)]]

\* the circles collected from the last to the first
DetectedBallsReversed(circles, rnd) ==
  [i \in 1..Len(circles) |->
     [x |-> circles[Len(circles) + 1 - i].x, y |-> circles[Len(circles) + 1 - i].y,
      radius |-> circles[Len(circles) + 1 - i].radius,
      confidence |-> Frac(800 + (rnd[i] * 150) \div 1000, 1000)]]

\* detectedBalls (opencv.worker.ts lines 179-188); confidence in thousandths:
\* 0.8 + Math.random() * 0.15
DetectedBalls(circles, rnd) ==
  [i \in 1..Len(circles) |->
     [x |-> circles[i].x, y |-> circles[i].y, radius |-> circles[i].radius,
      confidence |-> Frac(800 + (rnd[i] * 150) \div 1000, 1000)]]

\* result (opencv.worker.ts lines 202-217)
WorkerResult(m, circles, rnd) ==
  LET balls == DetectedBalls(circles, rnd) IN
  [imageUrl |-> "data:image/png", originalImageUrl |-> m.imageUrl, fileName |-> m.fileName,
   detections |-> [i \in 1..Len(balls) |-> ToDetection(balls[i], ImageWidth, ImageHeight)]]

\* what the catch block makes of what the try block threw (opencv.worker.ts
\* lines 136-138, 153, 162, 193-198, 221-231; opencv.d.ts lines 161-163, 237);
\* what new cv.Mat() throws is not an Error
WorkerThrown(m, why) ==
  IF workerScript = "workers/opencv.worker.ts"
  THEN CASE why = "fetch" ->
              Error(<<"Error">>, <<"Failed to fetch image from ">> \o m.imageUrl
                                 \o <<": ", "404", " ", "Not Found">>)
         [] why = "mat" ->
              Error(<<"WorkerError">>, <<"Unknown error occurred in worker processing.">>)
         [] why = "cv" -> Error(<<"Error">>, <<"cv.cvtColor failed badly">>)
         [] why = "blob" -> Error(<<"Error">>, <<"Failed to read blob as data URL.">>)
  ELSE CASE why = "fetch" -> Error(<< >>, <<"Failed to fetch image: ", "404">>)
         [] why = "mat" -> Error(<< >>, <<"Unknown error occurred">>)
         [] why = "cv" -> Error(<< >>, <<"cv.cvtColor failed badly">>)
         [] why = "blob" -> Error(<< >>, <<"Failed to read blob as data URL">>)

\* self.postMessage({ id, result })
ResultMessage(m, result) == [id |-> m.id, result |-> <<result>>, error |-> << >>]
\* self.postMessage({ id, error: { message, name, stack } }) (lines 220-234)
ErrorMessage(m, e) ==
  [id |-> m.id, result |-> << >>, error |-> <<[message |-> e.message, name |-> e.name]>>]
\* self.postMessage({ id, error: { message } }) when cv is not ready (line 125)
NotReadyMessage(m) ==
  [id |-> m.id, result |-> << >>,
   error |-> <<[message |-> <<"OpenCV is not ready in worker. Failed to load from ",
                              "https://docs.opencv.org/4.x/opencv.js", ".">>,
                name |-> << >>]>>]

\* ---------------------------------------------------- worker engine: errors
\* line 822
TimeoutErrorWorker(c) ==
  Error(<<"Error">>, <<"Request to worker timed out after ", ToString(TimeoutMs \div 1000),
                       "s for image ", calls[c].fileName>>)
\* line 795
WorkerFailedError(emsg) ==
  Error(<<"Error">>, <<"Worker failed: ">> \o OrElse(emsg, <<"Underlying worker script error">>))
\* line 929
WorkerTerminatedError == Error(<<"Error">>, <<"Worker terminated by explicit call.">>)
\* line 841
SendFailedError(detail) == Error(<<"Error">>, <<"Failed to send message to worker: ">> \o detail)
\* what postMessage throws when it cannot clone the message
PostMessageThrown == <<"DataCloneError">>

\* ------------------------------------------------------------------ calls
NewCall(inp, id, path) ==
  [imageUrl |-> inp.imageUrl, fileName |-> inp.fileName, params |-> inp.params,
   requestId |-> id, path |-> path]

mainIdle == pc = 0

\* ------------------------------------------- worker engine: detectBalls
\* the message is posted before the entry is registered
DetectBallsProgramPostFirst == <<"postMessage", "requests.set">>

\* the statements of the promise executor of detectBalls, in program order
\* (lines 819-826: the timer is armed and the entry registered; lines 828-842)
DetectBallsProgram == <<"requests.set", "postMessage">>

\* detectBalls without the check of this.worker (lines 811-813)
DetectBallsWorkerNoFallback(inp) ==
  /\ variant = "worker" /\ mainIdle /\ Len(calls) < MaxCalls
  /\ calls' = Append(calls, NewCall(inp, RequestId(nextRequestId), "worker"))
  /\ flow' = Append(flow, "none")
  /\ nextRequestId' = nextRequestId + 1
  /\ pc' = 1
  /\ cur' = Len(calls) + 1
  /\ settlements' = Append(settlements, << >>)
  /\ UNCHANGED <<variant, worker, workerThread, cvReady, workerScript, conversion, cvCalls, bulk, workersCreated, mats, requests,
                 timers, toWorker, jobs, fromWorker, roboflowApiKey, fetchCalls>>

\* detectBalls constructing a worker when there is none
DetectBallsWorkerRespawn(inp) ==
  /\ variant = "worker" /\ mainIdle /\ Len(calls) < MaxCalls
  /\ calls' = Append(calls, NewCall(inp, RequestId(nextRequestId), "worker"))
  /\ flow' = Append(flow, "none")
  /\ nextRequestId' = nextRequestId + 1
  /\ pc' = 1
  /\ cur' = Len(calls) + 1
  /\ settlements' = Append(settlements, << >>)
  /\ worker' = "worker"
  /\ workerThread' = "running"
  /\ workersCreated' = IF worker = "null" THEN workersCreated + 1 ELSE workersCreated
  /\ UNCHANGED <<variant, cvReady, workerScript, conversion, cvCalls, bulk, mats, requests,
                 timers, toWorker, jobs, fromWorker, roboflowApiKey, fetchCalls>>

\* detectBalls up to the promise executor (lines 809-815): without a worker
\* the call is handed to fallbackDetection, else it takes the next request id
DetectBallsWorker(inp) ==
  /\ variant = "worker" /\ mainIdle /\ Len(calls) < MaxCalls
  /\ IF worker = "null"
     THEN /\ calls' = Append(calls, NewCall(inp, NoId, "fallback"))
          /\ flow' = Append(flow, "sleep")
          /\ UNCHANGED <<nextRequestId, pc, cur>>
     ELSE /\ calls' = Append(calls, NewCall(inp, RequestId(nextRequestId), "worker"))
          /\ flow' = Append(flow, "none")
          /\ nextRequestId' = nextRequestId + 1
          /\ pc' = 1
          /\ cur' = Len(calls) + 1
  /\ settlements' = Append(settlements, << >>)
  /\ UNCHANGED <<variant, worker, workerThread, cvReady, workerScript, conversion, cvCalls, bulk, workersCreated, mats, requests, timers,
                 toWorker, jobs, fromWorker, roboflowApiKey, fetchCalls>>

\* const timer = setTimeout(...); this.requests.set(requestId, { resolve, reject, timer })
\* (lines 819-826)
StmtRequestsSet ==
  /\ timers' = timers \cup {cur}
  /\ requests' = MapSet(requests, calls[cur].requestId, [promise |-> cur, timer |-> cur])
  /\ UNCHANGED <<settlements, toWorker>>

\* the catch block without clearTimeout(timer)
StmtPostMessageNoClearTimeout(throws) ==
  IF ~throws
  THEN /\ toWorker' = IF workerThread = "running"
                      THEN toWorker \cup {RequestMessage(cur)} ELSE toWorker
       /\ UNCHANGED <<requests, timers, settlements>>
  ELSE /\ requests' = MapDelete(requests, calls[cur].requestId)
       /\ settlements' = Settle(settlements, cur, Reject(SendFailedError(PostMessageThrown)))
       /\ UNCHANGED <<toWorker, timers>>

\* try { this.worker.postMessage(...) } catch { ... } (lines 828-842);
\* throws = postMessage throws
StmtPostMessage(throws) ==
  IF ~throws
  THEN /\ toWorker' = IF workerThread = "running"
                      THEN toWorker \cup {RequestMessage(cur)} ELSE toWorker
       /\ UNCHANGED <<requests, timers, settlements>>
  ELSE /\ requests' = MapDelete(requests, calls[cur].requestId)
       /\ timers' = timers \ {cur}
       /\ settlements' = Settle(settlements, cur, Reject(SendFailedError(PostMessageThrown)))
       /\ UNCHANGED toWorker

\* the next statement of the executor
DetectBallsStep(throws) ==
  /\ pc > 0
  /\ LET stmt == DetectBallsProgram[pc] IN
       CASE stmt = "requests.set" -> StmtRequestsSet /\ ~throws
         [] stmt = "postMessage" -> StmtPostMessage(throws)
  /\ pc' = IF pc = Len(DetectBallsProgram) THEN 0 ELSE pc + 1
  /\ cur' = IF pc = Len(DetectBallsProgram) THEN 0 ELSE cur
  /\ UNCHANGED <<variant, worker, workerThread, cvReady, workerScript, conversion, cvCalls, bulk, workersCreated, mats, nextRequestId, calls, flow,
                 jobs, fromWorker, roboflowApiKey, fetchCalls>>

\* the timeout callback without this.requests.delete(requestId)
TimerFireWorkerNoDelete(c) ==
  /\ variant = "worker" /\ mainIdle /\ c \in timers
  /\ timers' = timers \ {c}
  /\ IF calls[c].requestId \in DOMAIN requests
     THEN /\ settlements' = Settle(settlements, c, Reject(TimeoutErrorWorker(c)))
          /\ UNCHANGED requests
     ELSE UNCHANGED <<requests, settlements>>
  /\ UNCHANGED <<variant, worker, workerThread, cvReady, workerScript, conversion, cvCalls, bulk, workersCreated, mats, nextRequestId, pc, cur, calls,
                 flow, toWorker, jobs, fromWorker, roboflowApiKey, fetchCalls>>

\* the timeout callback clears the whole pending map and every timer
TimerFireWorkerClearsAll(c) ==
  /\ variant = "worker" /\ mainIdle /\ c \in timers
  /\ timers' = {}
  /\ IF calls[c].requestId \in DOMAIN requests
     THEN /\ requests' = EmptyMap
          /\ settlements' = Settle(settlements, c, Reject(TimeoutErrorWorker(c)))
     ELSE UNCHANGED <<requests, settlements>>
  /\ UNCHANGED <<variant, worker, workerThread, cvReady, workerScript, conversion, cvCalls, bulk, workersCreated, mats, nextRequestId, pc, cur, calls,
                 flow, toWorker, jobs, fromWorker, roboflowApiKey, fetchCalls>>

\* the timeout callback of the worker engine (lines 819-824)
TimerFireWorker(c) ==
  /\ variant = "worker" /\ mainIdle /\ c \in timers
  /\ timers' = timers \ {c}
  /\ IF calls[c].requestId \in DOMAIN requests
     THEN /\ requests' = MapDelete(requests, calls[c].requestId)
          /\ settlements' = Settle(settlements, c, Reject(TimeoutErrorWorker(c)))
     ELSE UNCHANGED <<requests, settlements>>
  /\ UNCHANGED <<variant, worker, workerThread, cvReady, workerScript, conversion, cvCalls, bulk, workersCreated, mats, nextRequestId, pc, cur, calls,
                 flow, toWorker, jobs, fromWorker, roboflowApiKey, fetchCalls>>

\* ------------------------------------------- worker engine: worker events
\* the pending request is looked up by arrival order, not by the id of the message
PendingForOldest(id) ==
  IF requests = EmptyMap THEN NoId
  ELSE CHOOSE k \in DOMAIN requests : \A j \in DOMAIN requests : k[2] <= j[2]

\* this.requests.get(id) (line 769): the key of the entry found, NoId if none
PendingFor(id) == IF id \in DOMAIN requests THEN id ELSE NoId


\* the handler looks at `result` before it looks at `error`
MessageOutcomeResultFirst(m) ==
  IF m.result # << >>
  THEN Resolve(m.result[1])
  ELSE IF m.error # << >>
       THEN Reject(Error(OrElse(m.error[1].name, <<"WorkerError">>),
                         OrElse(m.error[1].message, <<"Unknown worker error">>)))
       ELSE Reject(Error(<<"Error">>, <<"Worker returned an invalid message format.">>))

\* a result without detections is taken for an invalid message
MessageOutcomeEmptyIsInvalid(m) ==
  IF m.error # << >>
  THEN Reject(Error(OrElse(m.error[1].name, <<"WorkerError">>),
                    OrElse(m.error[1].message, <<"Unknown worker error">>)))
  ELSE IF m.result # << >> /\ m.result[1].detections # << >>
       THEN Resolve(m.result[1])
       ELSE Reject(Error(<<"Error">>, <<"Worker returned an invalid message format.">>))

\* what worker.onmessage settles the pending request with (lines 774-786)
MessageOutcome(m) ==
  IF m.error # << >>
  THEN Reject(Error(OrElse(m.error[1].name, <<"WorkerError">>),
                    OrElse(m.error[1].message, <<"Unknown worker error">>)))
  ELSE IF m.result # << >>
       THEN Resolve(m.result[1])
       ELSE Reject(Error(<<"Error">>, <<"Worker returned an invalid message format.">>))

\* worker.onmessage without clearTimeout(pending.timer)
OnMessageNoClearTimeout(m) ==
  LET key == PendingFor(m.id) IN
  IF key # NoId
  THEN /\ settlements' = Settle(settlements, requests[key].promise, MessageOutcome(m))
       /\ requests' = MapDelete(requests, m.id)
       /\ UNCHANGED timers
  ELSE UNCHANGED <<requests, timers, settlements>>

\* worker.onmessage without this.requests.delete(id)
OnMessageNoDelete(m) ==
  LET key == PendingFor(m.id) IN
  IF key # NoId
  THEN /\ timers' = timers \ {requests[key].timer}
       /\ settlements' = Settle(settlements, requests[key].promise, MessageOutcome(m))
       /\ UNCHANGED requests
  ELSE UNCHANGED <<requests, timers, settlements>>

\* the body of worker.onmessage (lines 767-789)
OnMessage(m) ==
  LET key == PendingFor(m.id) IN
  IF key # NoId
  THEN /\ timers' = timers \ {requests[key].timer}
       /\ settlements' = Settle(settlements, requests[key].promise, MessageOutcome(m))
       /\ requests' = MapDelete(requests, m.id)
  ELSE UNCHANGED <<requests, timers, settlements>>

\* a response message reaches worker.onmessage; keep = the channel delivers a
\* second copy of it later
WorkerOnMessage(m, keep) ==
  /\ mainIdle /\ m \in fromWorker
  /\ OnMessage(m)
  /\ fromWorker' = IF keep THEN fromWorker ELSE fromWorker \ {m}
  /\ UNCHANGED <<variant, worker, workerThread, cvReady, workerScript, conversion, cvCalls, bulk, workersCreated, mats, nextRequestId, pc, cur, calls,
                 flow, toWorker, jobs, roboflowApiKey, fetchCalls>>

\* worker.onerror without this.requests.clear()
WorkerOnErrorNoClear(emsg) ==
  /\ variant = "worker" /\ mainIdle /\ workerThread = "running"
  /\ settlements' = RejectEach(settlements, Promises(requests), WorkerFailedError(emsg))
  /\ timers' = timers \ Timers(requests)
  /\ worker' = "null"
  /\ UNCHANGED <<variant, workerThread, cvReady, workerScript, conversion, cvCalls, bulk, workersCreated, mats, nextRequestId, pc, cur, calls, flow,
                 toWorker, jobs, fromWorker, roboflowApiKey, fetchCalls, requests>>

\* worker.onerror without this.worker = null
WorkerOnErrorKeepsWorker(emsg) ==
  /\ variant = "worker" /\ mainIdle /\ workerThread = "running"
  /\ settlements' = RejectEach(settlements, Promises(requests), WorkerFailedError(emsg))
  /\ timers' = timers \ Timers(requests)
  /\ requests' = EmptyMap
  /\ UNCHANGED <<variant, worker, workerThread, cvReady, workerScript, conversion, cvCalls, bulk, workersCreated, mats, nextRequestId, pc, cur, calls, flow,
                 toWorker, jobs, fromWorker, roboflowApiKey, fetchCalls>>

\* worker.onerror (lines 791-799)
WorkerOnError(emsg) ==
  /\ variant = "worker" /\ mainIdle /\ workerThread = "running"
  /\ settlements' = RejectEach(settlements, Promises(requests), WorkerFailedError(emsg))
  /\ timers' = timers \ Timers(requests)
  /\ requests' = EmptyMap
  /\ worker' = "null"
  /\ UNCHANGED <<variant, workerThread, cvReady, workerScript, conversion, cvCalls, bulk, workersCreated, mats, nextRequestId, pc, cur, calls, flow,
                 toWorker, jobs, fromWorker, roboflowApiKey, fetchCalls>>

\* the part of the state terminateWorker works on
Engine ==
  [worker |-> worker, workerThread |-> workerThread, requests |-> requests,
   timers |-> timers, settlements |-> settlements, toWorker |-> toWorker, jobs |-> jobs,
   mats |-> mats]

\* terminateWorker without clearTimeout(pending.timer)
TerminateWorkerWorkerNoClearTimeout(e) ==
  IF e.worker # "null"
  THEN [worker |-> "null",
        workerThread |-> "terminated",
        requests |-> EmptyMap,
        timers |-> e.timers,
        settlements |-> RejectEach(e.settlements, Promises(e.requests), WorkerTerminatedError),
        toWorker |-> {},
        jobs |-> {},
        mats |-> {}]
  ELSE e

\* terminateWorker of the worker engine (lines 923-934), from engine state e;
\* worker.terminate() stops the thread and discards what it has not handled,
\* and its heap with it
TerminateWorkerWorker(e) ==
  IF e.worker # "null"
  THEN [worker |-> "null",
        workerThread |-> "terminated",
        requests |-> EmptyMap,
        timers |-> e.timers \ Timers(e.requests),
        settlements |-> RejectEach(e.settlements, Promises(e.requests), WorkerTerminatedError),
        toWorker |-> {},
        jobs |-> {},
        mats |-> {}]
  ELSE e

\* --------------------------------------------------- worker thread
\* a request message being handled; mock = the handler took the mock branch
Job(m, mock) ==
  [id |-> m.id, imageUrl |-> m.imageUrl, fileName |-> m.fileName, params |-> m.params,
   mock |-> mock]

\* params.f (<< >> is undefined)
Field(params, f) == IF f \in DOMAIN params THEN <<params[f]>> ELSE << >>
\* a || b where a is a number or undefined
OrNumber(a, b) == IF a = << >> \/ a = <<0>> THEN b ELSE a[1]

\* blurKernelVal (opencv.worker.ts lines 157-159, opencv.d.ts lines 185-187)
BlurKernelVal(params) ==
  LET k == Field(params, "blurKernelSize") IN
  IF k # << >> /\ k # <<0>> /\ k[1] > 0
  THEN (IF k[1] % 2 = 0 THEN k[1] + 1 ELSE k[1])
  ELSE 5

\* new cv.Size(v, v)
Size(v) == [width |-> v, height |-> v]

\* the numeric arguments of cv.HoughCircles (opencv.worker.ts lines 171-176,
\* opencv.d.ts lines 197-202)
HoughArgs(params) ==
  [dp |-> OrNumber(Field(params, "dp"), 10),
   minDistance |-> OrNumber(Field(params, "minDistance"), 50),
   cannyThreshold |-> OrNumber(Field(params, "cannyThreshold"), 100),
   circleThreshold |-> OrNumber(Field(params, "circleThreshold"), 30),
   minRadius |-> OrNumber(Field(params, "minRadius"), 10),
   maxRadius |-> OrNumber(Field(params, "maxRadius"), 100)]

\* the cv.GaussianBlur and cv.HoughCircles calls of the handler run of `owner`
CvCalls(owner, ksize, hough) ==
  [owner |-> owner, GaussianBlur |-> ksize, HoughCircles |-> hough]

\* the native handle held by local variable `name` of the handler run of `owner`
Mat(owner, name) == <<owner, name>>
MatsOf(owner, names) == {Mat(owner, name) : name \in names}
\* the locals of the handler run of `owner` that hold a live handle
Live(owner) == {name \in {"src", "gray", "circles", "blurred"} : Mat(owner, name) \in mats}

\* the locals that have been assigned when the try block throws (lines 151-154)
AllocatedAt(why) ==
  CASE why = "fetch" -> {}
    [] why = "mat" -> {"src"}
    [] why = "cv" -> {"src", "gray", "circles", "blurred"}

\* finally { src?.delete(); gray?.delete(); blurred?.delete(); circles?.delete() }
\* (lines 235-241): the locals whose handle is deleted, in order
FinallyDeletes(locals) ==
  SelectSeq(<<"src", "gray", "blurred", "circles">>, LAMBDA name : name \in locals)

SeqRange(q) == {q[i] : i \in 1..Len(q)}

\* the not-ready branch without its return: the handler goes on after the reply
WorkerReceiveNoReturn(m) ==
  /\ workerThread = "running" /\ m \in toWorker
  /\ toWorker' = toWorker \ {m}
  /\ fromWorker' = IF ~cvReady /\ workerScript = "workers/opencv.worker.ts"
                   THEN fromWorker \cup {NotReadyMessage(m)} ELSE fromWorker
  /\ jobs' = jobs \cup {Job(m, ~cvReady)}
  /\ UNCHANGED <<variant, worker, workerThread, cvReady, workerScript, conversion, cvCalls, bulk, workersCreated, mats, requests,
                 timers, nextRequestId, pc, cur, calls, settlements, flow, roboflowApiKey,
                 fetchCalls>>

\* self.onmessage up to its first await (opencv.worker.ts lines 121-135,
\* opencv.d.ts lines 137-160)
WorkerReceive(m) ==
  /\ workerThread = "running" /\ m \in toWorker
  /\ toWorker' = toWorker \ {m}
  /\ IF ~cvReady /\ workerScript = "workers/opencv.worker.ts"
     THEN /\ fromWorker' = fromWorker \cup {NotReadyMessage(m)}
          /\ UNCHANGED jobs
     ELSE /\ jobs' = jobs \cup {Job(m, ~cvReady)}
          /\ UNCHANGED fromWorker
  /\ UNCHANGED <<variant, worker, workerThread, cvReady, workerScript, conversion, cvCalls, bulk, workersCreated, mats, requests,
                 timers, nextRequestId, pc, cur, calls, settlements, flow, roboflowApiKey,
                 fetchCalls>>

\* the image has been fetched and decoded; the handler runs from line 139 to
\* its next await (line 192): src, gray, circles and blurred are allocated and
\* the circles are detected
WorkerAllocate(j) ==
  /\ workerThread = "running" /\ j \in jobs /\ ~j.mock /\ Live(j.id) = {}
  /\ mats' = mats \cup MatsOf(j.id, {"src", "gray", "circles", "blurred"})
  /\ cvCalls' =
       cvCalls \cup {CvCalls(j.id, Size(BlurKernelVal(j.params)), HoughArgs(j.params))}
  /\ UNCHANGED <<variant, worker, workerThread, cvReady, workerScript, conversion, bulk, workersCreated, requests, timers,
                 nextRequestId, pc, cur, calls, settlements, flow, toWorker, jobs, fromWorker,
                 roboflowApiKey, fetchCalls>>

\* the rest of self.onmessage: the result is posted (line 218) and the finally
\* block runs
WorkerFinishResult(j, circles, rnd) ==
  /\ workerThread = "running" /\ j \in jobs /\ ~j.mock /\ Live(j.id) # {}
  /\ jobs' = jobs \ {j}
  /\ fromWorker' = fromWorker \cup {ResultMessage(j, WorkerResult(j, circles, rnd))}
  /\ mats' = mats \ MatsOf(j.id, SeqRange(FinallyDeletes(Live(j.id))))
  /\ UNCHANGED <<variant, worker, workerThread, cvReady, workerScript, conversion, cvCalls, bulk, workersCreated, requests, timers,
                 nextRequestId, pc, cur, calls, settlements, flow, toWorker, roboflowApiKey,
                 fetchCalls>>

\* the rest of self.onmessage: a step throws, the catch block posts the error
\* (lines 220-234) and the finally block runs
WorkerFinishError(j, why) ==
  /\ workerThread = "running" /\ j \in jobs /\ ~j.mock
  /\ (why = "blob") = (Live(j.id) # {})
  /\ jobs' = jobs \ {j}
  /\ fromWorker' = fromWorker \cup {ErrorMessage(j, WorkerThrown(j, why))}
  /\ LET locals == IF why = "blob" THEN Live(j.id) ELSE AllocatedAt(why) IN
       mats' = (mats \cup MatsOf(j.id, locals))
                 \ MatsOf(j.id, SeqRange(FinallyDeletes(locals)))
  /\ UNCHANGED <<variant, worker, workerThread, cvReady, workerScript, conversion, cvCalls, bulk, workersCreated, requests, timers,
                 nextRequestId, pc, cur, calls, settlements, flow, toWorker, roboflowApiKey,
                 fetchCalls>>

\* ------------------------------------------- worker engine: fallbackDetection
\* Math.floor(Math.random() * 3) + 1 (line 872)
NumBalls(r) == (r * 3) \div 1000 + 1

\* one mock circle, coordinates in thousandths of a pixel (lines 875-877, 889)
FallbackBall(rx, ry, rr, rc) ==
  [x |-> rx * (ImageWidth - 100) + 50000, y |-> ry * (ImageHeight - 100) + 50000,
   radius |-> rr * 30 + 20000, confidence |-> Frac(700 + (rc * 300) \div 1000, 1000)]

\* the result of fallbackDetection (lines 871-910); rnd are the Math.random() draws
FallbackResult(c, rnd) ==
  [imageUrl |-> "data:image/png", originalImageUrl |-> calls[c].imageUrl,
   fileName |-> calls[c].fileName,
   detections |->
     [i \in 1..NumBalls(rnd[1]) |->
        ToDetection(FallbackBall(rnd[4 * i - 2], rnd[4 * i - 1], rnd[4 * i], rnd[4 * i + 1]),
                    ImageWidth * 1000, ImageHeight * 1000)]]

\* await new Promise(resolve => setTimeout(resolve, 1000)); img.src = imageUrl
\* (lines 848-853, 919)
FallbackSleepDone(c) ==
  /\ mainIdle /\ c \in 1..Len(calls) /\ calls[c].path = "fallback" /\ flow[c] = "sleep"
  /\ flow' = [flow EXCEPT ![c] = "loading"]
  /\ UNCHANGED <<variant, worker, workerThread, cvReady, workerScript, conversion, cvCalls, bulk, workersCreated, mats, requests, timers, nextRequestId,
                 pc, cur, calls, settlements, toWorker, jobs, fromWorker, roboflowApiKey,
                 fetchCalls>>

\* img.onload (lines 855-913)
FallbackImageLoad(c, ctxOk, rnd) ==
  /\ mainIdle /\ c \in 1..Len(calls) /\ calls[c].path = "fallback" /\ flow[c] = "loading"
  /\ flow' = [flow EXCEPT ![c] = "none"]
  /\ settlements' =
       Settle(settlements, c,
              IF ctxOk THEN Resolve(FallbackResult(c, rnd))
              ELSE Reject(Error(<<"Error">>, <<"Could not get canvas context">>)))
  /\ UNCHANGED <<variant, worker, workerThread, cvReady, workerScript, conversion, cvCalls, bulk, workersCreated, mats, requests, timers, nextRequestId,
                 pc, cur, calls, toWorker, jobs, fromWorker, roboflowApiKey, fetchCalls>>

\* img.onerror (lines 915-917)
FallbackImageError(c) ==
  /\ mainIdle /\ c \in 1..Len(calls) /\ calls[c].path = "fallback" /\ flow[c] = "loading"
  /\ flow' = [flow EXCEPT ![c] = "none"]
  /\ settlements' =
       Settle(settlements, c,
              Reject(Error(<<"Error">>, <<"Failed to load image: ", calls[c].fileName>>)))
  /\ UNCHANGED <<variant, worker, workerThread, cvReady, workerScript, conversion, cvCalls, bulk, workersCreated, mats, requests, timers, nextRequestId,
                 pc, cur, calls, toWorker, jobs, fromWorker, roboflowApiKey, fetchCalls>>

\* ------------------------------------- worker thread: types/opencv.d.ts
\* checkOpenCV finds cv loaded (opencv.d.ts lines 92-100)
CheckOpenCV ==
  /\ workerThread = "running" /\ workerScript = "types/opencv.d.ts" /\ ~cvReady
  /\ cvReady' = TRUE
  /\ UNCHANGED <<variant, worker, workerThread, workerScript, conversion, cvCalls, bulk, workersCreated, mats, requests, timers,
                 nextRequestId, pc, cur, calls, settlements, flow, toWorker, jobs, fromWorker,
                 roboflowApiKey, fetchCalls>>

\* Math.floor(Math.random() * 2) + 1 (opencv.d.ts line 277)
MockNumBalls(r) == (r * 2) \div 1000 + 1

\* the result of createMockDetection (opencv.d.ts lines 257-324)
MockResult(j, rnd) ==
  [imageUrl |-> "data:image/png", originalImageUrl |-> j.imageUrl, fileName |-> j.fileName,
   detections |->
     [i \in 1..MockNumBalls(rnd[1]) |->
        ToDetection(FallbackBall(rnd[4 * i - 2], rnd[4 * i - 1], rnd[4 * i], rnd[4 * i + 1]),
                    ImageWidth * 1000, ImageHeight * 1000)]]

\* the not-ready branch of self.onmessage posts the mock result (lines 142-144)
WorkerMockResult(j, rnd) ==
  /\ workerThread = "running" /\ j \in jobs /\ j.mock
  /\ jobs' = jobs \ {j}
  /\ fromWorker' = fromWorker \cup {ResultMessage(j, MockResult(j, rnd))}
  /\ UNCHANGED <<variant, worker, workerThread, cvReady, workerScript, conversion, cvCalls, bulk, workersCreated, mats, requests,
                 timers, nextRequestId, pc, cur, calls, settlements, flow, toWorker,
                 roboflowApiKey, fetchCalls>>

\* createMockDetection throws and the not-ready branch posts the error
\* (lines 145-152)
WorkerMockError(j, why) ==
  /\ workerThread = "running" /\ j \in jobs /\ j.mock
  /\ jobs' = jobs \ {j}
  /\ fromWorker' =
       fromWorker \cup
         {ErrorMessage(j, Error(<< >>, <<"Mock detection failed: ">>
                                        \o (IF why = "fetch"
                                            THEN <<"Failed to fetch image: ", "404">>
                                            ELSE <<"Failed to read blob">>)))}
  /\ UNCHANGED <<variant, worker, workerThread, cvReady, workerScript, conversion, cvCalls, bulk, workersCreated, mats, requests,
                 timers, nextRequestId, pc, cur, calls, settlements, flow, toWorker,
                 roboflowApiKey, fetchCalls>>

\* ------------------------------------------------------------ remote engine
\* line 28
ApiKeyRequiredError ==
  Error(<<"Error">>, <<"Roboflow API key is required. Please set your API key first.">>)
\* line 38
TimeoutErrorRemote(c) ==
  Error(<<"Error">>, <<"Request timed out after ", ToString(TimeoutMs \div 1000),
                       "s for image ", calls[c].fileName>>)
\* the error without the status of the response
RoboflowApiErrorNoStatus(st) == Error(<<"Error">>, <<"Roboflow API error">>)

\* line 61
RoboflowApiError(st) ==
  Error(<<"Error">>, <<"Roboflow API error: ", ToString(st), " ", StatusText(st)>>)
\* line 191
EngineTerminatedError == Error(<<"Error">>, <<"Detection engine terminated.">>)

\* imageUrl.startsWith('blob:') || imageUrl.startsWith('data:') (line 47)
IsBlobOrData(url) == url[1] = "blob:" \/ url[1] = "data:"
\* response.ok
ResponseOk(st) == st \in 200..299

\* one prediction as a Detection (lines 138-165): left = x - width / 2
PredictionDetection(p, w, h) ==
  [confidence |-> p.confidence,
   bbox |-> [x |-> Frac(2 * p.x - p.width, 2 * w), y |-> Frac(2 * p.y - p.height, 2 * h),
             width |-> Frac(p.width, w), height |-> Frac(p.height, h)]]

\* the result of processRoboflowResult (lines 167-174)
RoboflowResult(c, predictions) ==
  [imageUrl |-> "data:image/png", originalImageUrl |-> calls[c].imageUrl,
   fileName |-> calls[c].fileName,
   detections |-> [i \in 1..Len(predictions) |->
                     PredictionDetection(predictions[i], ImageWidth, ImageHeight)]]

\* setApiKey (lines 21-24)
SetApiKey(key) ==
  /\ variant = "remote" /\ mainIdle
  /\ roboflowApiKey' = key
  /\ UNCHANGED <<variant, worker, workerThread, cvReady, workerScript, conversion, cvCalls, bulk, workersCreated, mats, requests, timers, nextRequestId,
                 pc, cur, calls, settlements, flow, toWorker, jobs, fromWorker, fetchCalls>>

\* detectBalls without the check of this.roboflowApiKey (lines 27-29)
DetectBallsRemoteNoKeyCheck(inp) ==
  /\ variant = "remote" /\ mainIdle /\ Len(calls) < MaxCalls
  /\ LET c == Len(calls) + 1
         id == RequestId(nextRequestId) IN
       /\ calls' = Append(calls, NewCall(inp, id, "remote"))
       /\ settlements' = Append(settlements, << >>)
       /\ nextRequestId' = nextRequestId + 1
       /\ timers' = timers \cup {c}
       /\ requests' = MapSet(requests, id, [promise |-> c, timer |-> c])
       /\ IF IsBlobOrData(inp.imageUrl)
          THEN flow' = Append(flow, "convert") /\ UNCHANGED fetchCalls
          ELSE flow' = Append(flow, "fetch") /\ fetchCalls' = fetchCalls + 1
  /\ UNCHANGED <<variant, worker, workerThread, cvReady, workerScript, conversion, cvCalls, workersCreated, mats,
                 pc, cur, toWorker, jobs, fromWorker, roboflowApiKey>>

\* detectBalls up to its first await (lines 26-52); what becomes of `bulk` is
\* up to the caller
DetectBallsRemote(inp) ==
  /\ variant = "remote" /\ mainIdle /\ Len(calls) < MaxCalls
  /\ IF roboflowApiKey = << >>
     THEN /\ calls' = Append(calls, NewCall(inp, NoId, "nokey"))
          /\ settlements' = Append(settlements, <<Reject(ApiKeyRequiredError)>>)
          /\ flow' = Append(flow, "none")
          /\ UNCHANGED <<nextRequestId, timers, requests, fetchCalls>>
     ELSE LET c == Len(calls) + 1
              id == RequestId(nextRequestId) IN
          /\ calls' = Append(calls, NewCall(inp, id, "remote"))
          /\ settlements' = Append(settlements, << >>)
          /\ nextRequestId' = nextRequestId + 1
          /\ timers' = timers \cup {c}
          /\ requests' = MapSet(requests, id, [promise |-> c, timer |-> c])
          /\ IF IsBlobOrData(inp.imageUrl)
             THEN flow' = Append(flow, "convert") /\ UNCHANGED fetchCalls
             ELSE flow' = Append(flow, "fetch") /\ fetchCalls' = fetchCalls + 1
  /\ UNCHANGED <<variant, worker, workerThread, cvReady, workerScript, conversion, cvCalls, workersCreated, mats, pc, cur, toWorker, jobs,
                 fromWorker, roboflowApiKey>>

\* the resolve at the end of the try block without its this.requests.has guard
RemoteResolveUnguarded(c, result) ==
  /\ timers' = timers \ {c}
  /\ requests' = MapDelete(requests, calls[c].requestId)
  /\ settlements' = Settle(settlements, c, Resolve(result))

\* the guarded resolve at the end of the try block (lines 69-73)
RemoteResolve(c, result) ==
  IF calls[c].requestId \in DOMAIN requests
  THEN /\ timers' = timers \ {c}
       /\ requests' = MapDelete(requests, calls[c].requestId)
       /\ settlements' = Settle(settlements, c, Resolve(result))
  ELSE UNCHANGED <<timers, requests, settlements>>

\* the catch block without this.requests.delete(requestId)
RemoteCatchNoDelete(c, err) ==
  IF calls[c].requestId \in DOMAIN requests
  THEN /\ timers' = timers \ {c}
       /\ settlements' = Settle(settlements, c, Reject(err))
       /\ UNCHANGED requests
  ELSE UNCHANGED <<timers, requests, settlements>>

\* the catch block (lines 74-80)
RemoteCatch(c, err) ==
  IF calls[c].requestId \in DOMAIN requests
  THEN /\ timers' = timers \ {c}
       /\ requests' = MapDelete(requests, calls[c].requestId)
       /\ settlements' = Settle(settlements, c, Reject(err))
  ELSE UNCHANGED <<timers, requests, settlements>>

remoteFrame ==
  UNCHANGED <<variant, worker, workerThread, cvReady, workerScript, conversion, cvCalls, bulk, workersCreated, mats, nextRequestId, pc, cur, calls,
              toWorker, jobs, fromWorker, roboflowApiKey>>

\* convertToBase64 settles (lines 84-112), then fetch is called (line 52)
RemoteConvertDone(c, out) ==
  /\ mainIdle /\ c \in 1..Len(calls) /\ calls[c].path = "remote" /\ flow[c] = "convert"
  /\ IF out = "load"
     THEN /\ flow' = [flow EXCEPT ![c] = "fetch"]
          /\ fetchCalls' = fetchCalls + 1
          /\ UNCHANGED <<timers, requests, settlements>>
     ELSE /\ flow' = [flow EXCEPT ![c] = "none"]
          /\ RemoteCatch(c, IF out = "noctx"
                            THEN Error(<<"Error">>, <<"Could not get canvas context">>)
                            ELSE Error(<<"Error">>, <<"Failed to load image: ">>
                                                    \o calls[c].imageUrl))
          /\ UNCHANGED fetchCalls
  /\ remoteFrame

\* fetch settles (lines 52-62); st = 0 is a network failure
RemoteFetchDone(c, st) ==
  /\ mainIdle /\ c \in 1..Len(calls) /\ calls[c].path = "remote" /\ flow[c] = "fetch"
  /\ IF st # 0 /\ ResponseOk(st)
     THEN /\ flow' = [flow EXCEPT ![c] = "json"]
          /\ UNCHANGED <<timers, requests, settlements>>
     ELSE /\ flow' = [flow EXCEPT ![c] = "none"]
          /\ RemoteCatch(c, IF st = 0 THEN Error(<<"TypeError">>, <<"Failed to fetch">>)
                            ELSE RoboflowApiError(st))
  /\ UNCHANGED fetchCalls
  /\ remoteFrame

\* response.json() settles (line 64), then processRoboflowResult starts (line 67)
RemoteJsonDone(c, ok) ==
  /\ mainIdle /\ c \in 1..Len(calls) /\ calls[c].path = "remote" /\ flow[c] = "json"
  /\ IF ok
     THEN /\ flow' = [flow EXCEPT ![c] = "process"]
          /\ UNCHANGED <<timers, requests, settlements>>
     ELSE /\ flow' = [flow EXCEPT ![c] = "none"]
          /\ RemoteCatch(c, Error(<<"SyntaxError">>, <<"Unexpected token">>))
  /\ UNCHANGED fetchCalls
  /\ remoteFrame

\* processRoboflowResult settles (lines 114-185); the predictions of the parsed
\* body are first read here
RemoteProcessDone(c, out, predictions) ==
  /\ mainIdle /\ c \in 1..Len(calls) /\ calls[c].path = "remote" /\ flow[c] = "process"
  /\ flow' = [flow EXCEPT ![c] = "none"]
  /\ IF out = "load"
     THEN RemoteResolve(c, RoboflowResult(c, predictions))
     ELSE RemoteCatch(c, IF out = "noctx"
                         THEN Error(<<"Error">>, <<"Could not get canvas context">>)
                         ELSE Error(<<"Error">>, <<"Failed to load image: ",
                                                   calls[c].fileName>>))
  /\ UNCHANGED fetchCalls
  /\ remoteFrame

\* the timeout callback of the remote engine (lines 35-40)
TimerFireRemote(c) ==
  /\ variant = "remote" /\ mainIdle /\ c \in timers
  /\ timers' = timers \ {c}
  /\ IF calls[c].requestId \in DOMAIN requests
     THEN /\ requests' = MapDelete(requests, calls[c].requestId)
          /\ settlements' = Settle(settlements, c, Reject(TimeoutErrorRemote(c)))
     ELSE UNCHANGED <<requests, settlements>>
  /\ UNCHANGED <<variant, worker, workerThread, cvReady, workerScript, conversion, cvCalls, bulk, workersCreated, mats, nextRequestId, pc, cur, calls,
                 flow, toWorker, jobs, fromWorker, roboflowApiKey, fetchCalls>>

\* terminateWorker without this.requests.clear()
TerminateWorkerRemoteNoClear(e) ==
  [e EXCEPT !.settlements = RejectEach(e.settlements, Promises(e.requests),
                                       EngineTerminatedError),
            !.timers = e.timers \ Timers(e.requests)]

\* terminateWorker of the remote engine (lines 187-195), from engine state e
TerminateWorkerRemote(e) ==
  [e EXCEPT !.settlements = RejectEach(e.settlements, Promises(e.requests),
                                       EngineTerminatedError),
            !.timers = e.timers \ Timers(e.requests),
            !.requests = EmptyMap]

\* ------------------------------------------------------ SoccerBallDetector
\* isRoboflowReady is set together with the key of the engine
\* (SoccerBallDetector.tsx lines 79-85, 98-103)
isRoboflowReady == roboflowApiKey # << >>

\* URL.createObjectURL(file): a URL not handed out before
ObjectURL(n) == <<"blob:", ToString(n)>>

\* the arguments of detectionEngine.current.detectBalls(imageUrl, file.name,
\* detectionParams) (line 186)
BulkInput(url, name) == [imageUrl |-> url, fileName |-> name, params |-> DefaultParams]

\* the fragments of error messages in which a phrase occurs as a substring
Mentions ==
  { <<"Roboflow API key is required. Please set your API key first.", "API key is required">>,
    <<"Roboflow API error: ", "Roboflow API error">>,
    <<"Roboflow API error.png", "Roboflow API error">>,
    <<"OpenCV is not loaded. Test.", "OpenCV is not loaded">> }

\* message.includes(phrase)
Includes(message, phrase) ==
  \E i \in 1..Len(message) : message[i] = phrase \/ <<message[i], phrase>> \in Mentions

\* the result a stubbed detectBalls resolves with
\* (SoccerBallDetector.test.tsx lines 203-212)
MockedResult(inp) ==
  [imageUrl |-> "data:image/png", originalImageUrl |-> inp.imageUrl,
   fileName |-> inp.fileName, detections |-> << >>]

\* what a stubbed detectBalls may settle with: the outcomes the tests queue
\* (lines 159, 176, 212, 233, 245) and the two errors the loop looks for
MockOutcomes(inp) ==
  { Resolve(MockedResult(inp)),
    Reject(Error(<<"Error">>, <<"file2 failed">>)),
    Reject(Error(<<"Error">>, <<"OpenCV is not loaded. Test.">>)),
    Reject(ApiKeyRequiredError),
    Reject(RoboflowApiError(500)) }

\* detectBalls of the stubbed engine (SoccerBallDetector.test.tsx lines 8-17):
\* the promise it returns is already settled with outcome o
DetectBallsMock(inp, o) ==
  /\ variant = "mock" /\ mainIdle /\ Len(calls) < MaxCalls
  /\ calls' = Append(calls, NewCall(inp, NoId, "mock"))
  /\ settlements' = Append(settlements, <<o>>)
  /\ flow' = Append(flow, "none")
  /\ UNCHANGED <<variant, worker, workerThread, cvReady, workerScript, conversion, cvCalls,
                 workersCreated, mats, requests, timers, nextRequestId, pc, cur,
                 toWorker, jobs, fromWorker, roboflowApiKey, fetchCalls>>

\* detectionEngine.current.detectBalls: the remote engine, or the stub
EngineDetectBalls(inp) ==
  IF variant = "mock" THEN \E o \in MockOutcomes(inp) : DetectBallsMock(inp, o)
  ELSE DetectBallsRemote(inp)

\* everything but the state of the component
allButComponent ==
  <<variant, worker, workerThread, cvReady, workerScript, conversion, cvCalls,
    workersCreated, mats, requests, timers, nextRequestId, pc, cur,
    calls, settlements, flow, toWorker, jobs, fromWorker, roboflowApiKey, fetchCalls>>

\* processImage up to its await (lines 111-119)
ProcessImage(inp) ==
  /\ variant \in {"remote", "mock"} /\ mainIdle
  /\ bulk.mounted /\ bulk.state \in {"idle", "done"} /\ ~bulk.isProcessing
  /\ IF ~isRoboflowReady
     THEN UNCHANGED vars
     ELSE /\ bulk' = [bulk EXCEPT !.single = TRUE, !.call = Len(calls) + 1,
                                  !.isProcessing = TRUE]
          /\ EngineDetectBalls(inp)

\* processImage with setIsProcessing(false) at the end of the try block
ProcessImageResumeNoFinally ==
  /\ mainIdle /\ bulk.single /\ settlements[bulk.call] # << >>
  /\ LET o == settlements[bulk.call][1] IN
       bulk' = [bulk EXCEPT !.single = FALSE,
                            !.results = IF o.kind = "reject" THEN @ ELSE <<o.value[1]>> \o @,
                            !.isProcessing = o.kind = "reject"]
  /\ UNCHANGED allButComponent

\* the awaited detectBalls of processImage has settled: the result is
\* prepended or the error reported, then finally (lines 120-142)
ProcessImageResume ==
  /\ mainIdle /\ bulk.single /\ settlements[bulk.call] # << >>
  /\ LET o == settlements[bulk.call][1] IN
       bulk' = [bulk EXCEPT !.single = FALSE,
                            !.results = IF o.kind = "reject" THEN @ ELSE <<o.value[1]>> \o @,
                            !.isProcessing = FALSE]
  /\ UNCHANGED allButComponent

\* the loop body for file i up to its await: the object URL is created and
\* detectBalls is called (lines 183-186)
BulkIterate(b, i) ==
  [b EXCEPT !.state = "awaiting", !.i = i, !.call = Len(calls) + 1,
            !.created = Append(@, ObjectURL(Len(b.created) + 1))]

\* the checks of error.message that end the loop (line 211)
Fundamental(err) ==
  \/ Includes(err.message, "API key is required")
  \/ Includes(err.message, "Roboflow API error")

\* the summary toast (lines 218-226)
Summary(b) ==
  IF b.successfulUploads > 0 /\ ~b.aFileFailed
  THEN <<[kind |-> "success",
          message |-> <<"Processed all ", ToString(Len(b.files)), " images successfully.">>]>>
  ELSE IF b.successfulUploads > 0 /\ b.aFileFailed
  THEN <<[kind |-> "info",
          message |-> <<"Processed ", ToString(b.successfulUploads), " out of ",
                        ToString(Len(b.files)), " images. Some images failed.">>]>>
  ELSE << >>

\* after the loop (lines 216-229)
BulkFinish(b) ==
  [b EXCEPT !.state = "done", !.results = b.newResults \o @, !.summary = Summary(b),
            !.isProcessing = FALSE]

\* processBulkImages up to its first await (lines 165-186); a batch is taken
\* only when its requests fit under MaxCalls
ProcessBulkImages(files) ==
  /\ variant \in {"remote", "mock"} /\ mainIdle
  /\ bulk.mounted /\ bulk.state = "idle" /\ ~bulk.isProcessing
  /\ Len(calls) + Len(files) <= MaxCalls
  /\ IF ~isRoboflowReady \/ files = << >>
     THEN UNCHANGED vars
     ELSE /\ bulk' = BulkIterate([bulk EXCEPT !.files = files, !.isProcessing = TRUE], 1)
          /\ EngineDetectBalls(BulkInput(ObjectURL(Len(bulk.created) + 1), files[1]))

\* the loop body after its await (lines 187-209): try or catch, then finally
BulkSettled(b, o) ==
  [b EXCEPT !.successfulUploads = IF o.kind = "reject" THEN @ ELSE @ + 1,
            !.newResults = IF o.kind = "reject" THEN @ ELSE Append(@, o.value[1]),
            !.aFileFailed = @ \/ o.kind = "reject",
            !.revoked = Append(@, b.created[Len(b.created)])]

\* the object URL is revoked at the end of the try block, not in finally
BulkResumeRevokeOnSuccess ==
  /\ mainIdle /\ bulk.state = "awaiting" /\ settlements[bulk.call] # << >>
  /\ LET o == settlements[bulk.call][1]
         b == [BulkSettled(bulk, o) EXCEPT
                 !.revoked = IF o.kind = "reject" THEN bulk.revoked ELSE @]
     IN IF (o.kind = "reject" /\ Fundamental(o.error[1])) \/ bulk.i = Len(bulk.files)
        THEN bulk' = BulkFinish(b) /\ UNCHANGED allButComponent
        ELSE /\ bulk' = BulkIterate(b, bulk.i + 1)
             /\ EngineDetectBalls(BulkInput(ObjectURL(Len(b.created) + 1),
                                            bulk.files[bulk.i + 1]))

\* the loop goes on to the next file without awaiting detectBalls
BulkResumeNoAwait ==
  /\ mainIdle /\ bulk.state = "awaiting"
  /\ LET o == IF settlements[bulk.call] # << >> THEN settlements[bulk.call][1]
              ELSE Resolve(MockedResult(calls[bulk.call]))
         b == BulkSettled(bulk, o)
     IN IF (o.kind = "reject" /\ Fundamental(o.error[1])) \/ bulk.i = Len(bulk.files)
        THEN bulk' = BulkFinish(b) /\ UNCHANGED allButComponent
        ELSE /\ bulk' = BulkIterate(b, bulk.i + 1)
             /\ EngineDetectBalls(BulkInput(ObjectURL(Len(b.created) + 1),
                                            bulk.files[bulk.i + 1]))

\* the loop without its break
BulkResumeNoBreak ==
  /\ mainIdle /\ bulk.state = "awaiting" /\ settlements[bulk.call] # << >>
  /\ LET o == settlements[bulk.call][1]
         b == BulkSettled(bulk, o)
     IN IF bulk.i = Len(bulk.files)
        THEN bulk' = BulkFinish(b) /\ UNCHANGED allButComponent
        ELSE /\ bulk' = BulkIterate(b, bulk.i + 1)
             /\ EngineDetectBalls(BulkInput(ObjectURL(Len(b.created) + 1),
                                            bulk.files[bulk.i + 1]))

\* the results of the batch are set without the results of the files
BulkResumeDropsResults ==
  /\ mainIdle /\ bulk.state = "awaiting" /\ settlements[bulk.call] # << >>
  /\ LET o == settlements[bulk.call][1]
         b == [BulkSettled(bulk, o) EXCEPT !.newResults = << >>]
     IN IF (o.kind = "reject" /\ Fundamental(o.error[1])) \/ bulk.i = Len(bulk.files)
        THEN bulk' = BulkFinish(b) /\ UNCHANGED allButComponent
        ELSE /\ bulk' = BulkIterate(b, bulk.i + 1)
             /\ EngineDetectBalls(BulkInput(ObjectURL(Len(b.created) + 1),
                                            bulk.files[bulk.i + 1]))

\* the awaited detectBalls has settled: the rest of the loop body (lines
\* 187-213: try or catch, then finally revokes the URL, then the break), then
\* either the next iteration up to its await or the end of processBulkImages
\* (lines 216-229)
BulkResume ==
  /\ mainIdle /\ bulk.state = "awaiting" /\ settlements[bulk.call] # << >>
  /\ LET o == settlements[bulk.call][1]
         b == BulkSettled(bulk, o)
     IN IF (o.kind = "reject" /\ Fundamental(o.error[1])) \/ bulk.i = Len(bulk.files)
        THEN bulk' = BulkFinish(b) /\ UNCHANGED allButComponent
        ELSE /\ bulk' = BulkIterate(b, bulk.i + 1)
             /\ EngineDetectBalls(BulkInput(ObjectURL(Len(b.created) + 1),
                                            bulk.files[bulk.i + 1]))

\* the component unmounts: its only effect has no cleanup (lines 76-85), so
\* nothing is done to the engine
UnmountSoccerBallDetector ==
  /\ variant \in {"remote", "mock"} /\ mainIdle /\ bulk.mounted
  /\ bulk' = [bulk EXCEPT !.mounted = FALSE]
  /\ UNCHANGED allButComponent

\* ------------------------------------------------------------ legacy engine
\* one simulated ball, coordinates in thousandths of a pixel
\* (BallDetectionEngine.tsx lines 268-273)
SimulatedBall(rr, rx, ry, rc) ==
  LET radius == 20000 + rr * 40 IN
  [x |-> radius + (rx * (ImageWidth * 1000 - radius * 2)) \div 1000,
   y |-> radius + (ry * (ImageHeight * 1000 - radius * 2)) \div 1000,
   radius |-> radius, confidence |-> Frac(750 + (rc * 240) \div 1000, 1000)]

\* the result of the legacy detectBalls (lines 231-254)
LegacyResult(c, rnd) ==
  [imageUrl |-> "data:image/png", originalImageUrl |-> calls[c].imageUrl,
   fileName |-> calls[c].fileName,
   detections |->
     [i \in 1..NumBalls(rnd[1]) |->
        ToDetection(SimulatedBall(rnd[4 * i - 2], rnd[4 * i - 1], rnd[4 * i], rnd[4 * i + 1]),
                    ImageWidth * 1000, ImageHeight * 1000)]]

\* detectBalls of the legacy engine (lines 217-221, 259): the image load starts
DetectBallsLegacy(inp) ==
  /\ variant = "legacy" /\ mainIdle /\ Len(calls) < MaxCalls
  /\ calls' = Append(calls, NewCall(inp, NoId, "legacy"))
  /\ settlements' = Append(settlements, << >>)
  /\ flow' = Append(flow, "loading")
  /\ UNCHANGED <<variant, worker, workerThread, cvReady, workerScript, conversion, cvCalls, bulk, workersCreated, mats, requests, timers, nextRequestId,
                 pc, cur, toWorker, jobs, fromWorker, roboflowApiKey, fetchCalls>>

\* call c is in detectBalls, waiting for its image: called directly, or from
\* the catch block of detectWithOpenCV (line 397)
LegacyLoading(c) ==
  \/ calls[c].path = "legacy" /\ flow[c] = "loading"
  \/ calls[c].path = "opencv" /\ flow[c] = "simple"

\* img.onload of the legacy engine (lines 222-257)
LegacyImageLoad(c, rnd) ==
  /\ mainIdle /\ c \in 1..Len(calls) /\ LegacyLoading(c)
  /\ flow' = [flow EXCEPT ![c] = "none"]
  /\ settlements' = Settle(settlements, c, Resolve(LegacyResult(c, rnd)))
  /\ UNCHANGED <<variant, worker, workerThread, cvReady, workerScript, conversion, cvCalls, bulk, workersCreated, mats, requests, timers, nextRequestId,
                 pc, cur, calls, toWorker, jobs, fromWorker, roboflowApiKey, fetchCalls>>

\* the image fails to load: the legacy engine sets no img.onerror (lines 218-260)
LegacyImageError(c) ==
  /\ mainIdle /\ c \in 1..Len(calls) /\ LegacyLoading(c)
  /\ flow' = [flow EXCEPT ![c] = "failed"]
  /\ UNCHANGED <<variant, worker, workerThread, cvReady, workerScript, conversion, cvCalls, bulk, workersCreated, mats, requests, timers, nextRequestId,
                 pc, cur, calls, settlements, toWorker, jobs, fromWorker, roboflowApiKey,
                 fetchCalls>>

\* ------------------------------------------ legacy engine: detectWithOpenCV
\* ways the try block of detectWithOpenCV may throw: new cv.Mat() for gray,
\* cv.cvtColor
OpenCVFailures == {"mat", "cv"}

\* the locals assigned when it throws (lines 325-333)
AllocatedAtLegacy(why) ==
  CASE why = "mat" -> {"src"}
    [] why = "cv" -> {"src", "gray", "circles"}

\* src.delete(); gray.delete(); blurred.delete(); circles.delete() (lines 371-374)
LegacyDeletes == <<"src", "gray", "blurred", "circles">>

\* new window.cv.Size(params.blurKernel || 5, params.blurKernel || 5) (line 334)
LegacyKsize(params) == Size(OrNumber(Field(params, "blurKernel"), 5))

\* the numeric arguments of window.cv.HoughCircles (lines 342-347): dp is the
\* literal 1
LegacyHoughArgs(params) ==
  [dp |-> 10,
   minDistance |-> OrNumber(Field(params, "minDistance"), 50),
   cannyThreshold |-> OrNumber(Field(params, "cannyThreshold"), 100),
   circleThreshold |-> OrNumber(Field(params, "circleThreshold"), 30),
   minRadius |-> OrNumber(Field(params, "minRadius"), 10),
   maxRadius |-> OrNumber(Field(params, "maxRadius"), 100)]

\* the result of detectWithOpenCV (lines 352-391)
OpenCVResult(c, circles, rnd) ==
  LET balls == DetectedBalls(circles, rnd) IN
  [imageUrl |-> "data:image/png", originalImageUrl |-> calls[c].imageUrl,
   fileName |-> calls[c].fileName,
   detections |-> [i \in 1..Len(balls) |-> ToDetection(balls[i], ImageWidth, ImageHeight)]]

\* detectWithOpenCV (lines 307-314, 401); cvLoaded = window.cv is set
DetectWithOpenCV(inp, cvLoaded) ==
  /\ variant = "legacy" /\ mainIdle /\ Len(calls) < MaxCalls
  /\ calls' = Append(calls, NewCall(inp, NoId, "opencv"))
  /\ IF cvLoaded
     THEN /\ settlements' = Append(settlements, << >>)
          /\ flow' = Append(flow, "loading")
     ELSE /\ settlements' =
               Append(settlements, <<Reject(Error(<<"Error">>, <<"OpenCV not loaded">>))>>)
          /\ flow' = Append(flow, "none")
  /\ UNCHANGED <<variant, worker, workerThread, cvReady, workerScript, conversion, cvCalls, bulk, workersCreated, mats,
                 requests, timers, nextRequestId, pc, cur, toWorker, jobs, fromWorker,
                 roboflowApiKey, fetchCalls>>

\* img.onload of detectWithOpenCV runs through (lines 316-393): the four Mats
\* are allocated, used and deleted
OpenCVImageLoad(c, circles, rnd) ==
  /\ mainIdle /\ c \in 1..Len(calls) /\ calls[c].path = "opencv" /\ flow[c] = "loading"
  /\ flow' = [flow EXCEPT ![c] = "none"]
  /\ mats' = (mats \cup MatsOf(c, {"src", "gray", "circles", "blurred"}))
               \ MatsOf(c, SeqRange(LegacyDeletes))
  /\ cvCalls' =
       cvCalls \cup {CvCalls(c, LegacyKsize(calls[c].params), LegacyHoughArgs(calls[c].params))}
  /\ settlements' = Settle(settlements, c, Resolve(OpenCVResult(c, circles, rnd)))
  /\ UNCHANGED <<variant, worker, workerThread, cvReady, workerScript, conversion, bulk, workersCreated,
                 requests, timers, nextRequestId, pc, cur, calls, toWorker, jobs, fromWorker,
                 roboflowApiKey, fetchCalls>>

\* the try block of img.onload throws (lines 317-397): the Mats allocated so
\* far are not deleted, and the catch block calls this.detectBalls
OpenCVImageLoadThrows(c, why) ==
  /\ mainIdle /\ c \in 1..Len(calls) /\ calls[c].path = "opencv" /\ flow[c] = "loading"
  /\ flow' = [flow EXCEPT ![c] = "simple"]
  /\ mats' = mats \cup MatsOf(c, AllocatedAtLegacy(why))
  /\ UNCHANGED <<variant, worker, workerThread, cvReady, workerScript, conversion, cvCalls, bulk, workersCreated,
                 requests, timers, nextRequestId, pc, cur, calls, settlements, toWorker, jobs,
                 fromWorker, roboflowApiKey, fetchCalls>>

\* the image of detectWithOpenCV fails to load: there is no img.onerror
\* (lines 312-402)
OpenCVImageError(c) ==
  /\ mainIdle /\ c \in 1..Len(calls) /\ calls[c].path = "opencv" /\ flow[c] = "loading"
  /\ flow' = [flow EXCEPT ![c] = "failed"]
  /\ UNCHANGED <<variant, worker, workerThread, cvReady, workerScript, conversion, cvCalls, bulk, workersCreated, mats,
                 requests, timers, nextRequestId, pc, cur, calls, settlements, toWorker, jobs,
                 fromWorker, roboflowApiKey, fetchCalls>>

\* ---------------------------------------------------------- terminateWorker
\* terminateWorker of the engine at hand
TerminateWorkerOf(e) ==
  IF variant = "worker" THEN TerminateWorkerWorker(e) ELSE TerminateWorkerRemote(e)

\* terminateWorker as called by the owner of the engine; the legacy engine has none
TerminateWorker ==
  /\ mainIdle /\ variant \in {"worker", "remote"}
  /\ LET e == TerminateWorkerOf(Engine) IN
       /\ worker' = e.worker
       /\ workerThread' = e.workerThread
       /\ requests' = e.requests
       /\ timers' = e.timers
       /\ settlements' = e.settlements
       /\ toWorker' = e.toWorker
       /\ jobs' = e.jobs
       /\ mats' = e.mats
  /\ UNCHANGED <<variant, cvReady, workerScript, conversion, cvCalls, bulk, workersCreated, nextRequestId, pc, cur, calls, flow, fromWorker,
                 roboflowApiKey, fetchCalls>>

\* ------------------------------------------------------------ specification
\* the engine after construction (AdvancedSoccerDetector.tsx lines 757-807,
\* BallDetectionEngine.tsx lines 11-19 and 208-215)
Init ==
  /\ variant \in {"worker", "remote", "legacy"}
  /\ worker \in (IF variant = "worker" THEN {"worker", "null"} ELSE {"null"})
  /\ workerThread = IF worker = "worker" THEN "running" ELSE "none"
  /\ cvReady \in (IF worker = "worker" THEN BOOLEAN ELSE {FALSE})
  /\ workerScript = "workers/opencv.worker.ts"
  /\ workersCreated = IF worker = "worker" THEN 1 ELSE 0
  /\ conversion = NoConversion
  /\ cvCalls = {}
  /\ bulk = NoBulk
  /\ mats = {}
  /\ roboflowApiKey \in (IF variant = "remote" THEN ApiKeys \cup {<< >>} ELSE {<< >>})
  /\ requests = EmptyMap
  /\ timers = {}
  /\ nextRequestId = 0
  /\ pc = 0
  /\ cur = 0
  /\ calls = << >>
  /\ settlements = << >>
  /\ flow = << >>
  /\ toWorker = {}
  /\ jobs = {}
  /\ fromWorker = {}
  /\ fetchCalls = 0

RandomSeqs == [1..13 -> RandomDraws]

Next ==
  \/ \E inp \in Inputs : DetectBallsWorker(inp)
  \/ \E throws \in BOOLEAN : DetectBallsStep(throws)
  \/ \E c \in timers : TimerFireWorker(c)
  \/ \E m \in fromWorker, keep \in BOOLEAN : WorkerOnMessage(m, keep)
  \/ \E emsg \in FaultMessages : WorkerOnError(emsg)
  \/ TerminateWorker
  \/ \E m \in toWorker : WorkerReceive(m)
  \/ \E j \in jobs : WorkerAllocate(j)
  \/ \E j \in jobs, circles \in CircleLists :
       \E rnd \in [1..Len(circles) -> RandomDraws] : WorkerFinishResult(j, circles, rnd)
  \/ \E j \in jobs, why \in WorkerFailures : WorkerFinishError(j, why)
  \/ \E c \in 1..Len(calls) : FallbackSleepDone(c)
  \/ \E c \in 1..Len(calls), ctxOk \in BOOLEAN, rnd \in RandomSeqs :
       FallbackImageLoad(c, ctxOk, rnd)
  \/ \E c \in 1..Len(calls) : FallbackImageError(c)
  \/ \E key \in ApiKeys : SetApiKey(key)
  \/ \E inp \in Inputs : DetectBallsRemote(inp) /\ UNCHANGED bulk
  \/ \E c \in 1..Len(calls), out \in {"load", "noctx", "error"} : RemoteConvertDone(c, out)
  \/ \E c \in 1..Len(calls), st \in HttpStatuses \cup {0} : RemoteFetchDone(c, st)
  \/ \E c \in 1..Len(calls), ok \in BOOLEAN : RemoteJsonDone(c, ok)
  \/ \E c \in 1..Len(calls), out \in {"load", "noctx", "error"},
        predictions \in PredictionLists : RemoteProcessDone(c, out, predictions)
  \/ \E c \in timers : TimerFireRemote(c)
  \/ \E inp \in Inputs : DetectBallsLegacy(inp)
  \/ \E c \in 1..Len(calls), rnd \in RandomSeqs : LegacyImageLoad(c, rnd)
  \/ \E c \in 1..Len(calls) : LegacyImageError(c)
  \/ \E inp \in Inputs, cvLoaded \in BOOLEAN : DetectWithOpenCV(inp, cvLoaded)
  \/ \E c \in 1..Len(calls), circles \in CircleLists :
       \E rnd \in [1..Len(circles) -> RandomDraws] : OpenCVImageLoad(c, circles, rnd)
  \/ \E c \in 1..Len(calls), why \in OpenCVFailures : OpenCVImageLoadThrows(c, why)
  \/ \E c \in 1..Len(calls) : OpenCVImageError(c)

Spec == Init /\ [][Next]_vars

\* what the event loop, the worker thread, the timers and the browser's image
\* and network events do on their own: everything but the caller's calls
Progress ==
  \/ \E throws \in BOOLEAN : DetectBallsStep(throws)
  \/ \E c \in timers : TimerFireWorker(c) \/ TimerFireRemote(c)
  \/ \E m \in fromWorker : WorkerOnMessage(m, FALSE)
  \/ \E m \in toWorker : WorkerReceive(m)
  \/ \E j \in jobs : WorkerAllocate(j)
  \/ \E j \in jobs, circles \in CircleLists :
       \E rnd \in [1..Len(circles) -> RandomDraws] : WorkerFinishResult(j, circles, rnd)
  \/ \E c \in 1..Len(calls) : FallbackSleepDone(c)
  \/ \E c \in 1..Len(calls), ctxOk \in BOOLEAN, rnd \in RandomSeqs :
       FallbackImageLoad(c, ctxOk, rnd)
  \/ \E c \in 1..Len(calls), out \in {"load", "noctx", "error"} : RemoteConvertDone(c, out)
  \/ \E c \in 1..Len(calls), st \in HttpStatuses \cup {0} : RemoteFetchDone(c, st)
  \/ \E c \in 1..Len(calls), ok \in BOOLEAN : RemoteJsonDone(c, ok)
  \/ \E c \in 1..Len(calls), out \in {"load", "noctx", "error"},
        predictions \in PredictionLists : RemoteProcessDone(c, out, predictions)
  \/ \E c \in 1..Len(calls), rnd \in RandomSeqs : LegacyImageLoad(c, rnd)
  \/ \E c \in 1..Len(calls) : LegacyImageError(c)
  \/ \E c \in 1..Len(calls), circles \in CircleLists :
       \E rnd \in [1..Len(circles) -> RandomDraws] : OpenCVImageLoad(c, circles, rnd)
  \/ \E c \in 1..Len(calls) : OpenCVImageError(c)

\* armed timers eventually fire and pending events are eventually handled
FairSpec == Spec /\ WF_vars(Progress)

\* ------------------------------------------------ the worker thread alone
\* a worker thread running either script, with the engine that owns it posting
\* requests; nothing consumes the responses, so fromWorker is everything the
\* worker has posted, and the worker is not killed
WorkerInit ==
  /\ variant = "worker" /\ worker = "worker" /\ workerThread = "running"
  /\ workerScript \in WorkerScripts
  /\ workersCreated = 1
  /\ conversion = NoConversion
  /\ cvCalls = {}
  /\ bulk = NoBulk
  /\ cvReady \in BOOLEAN
  /\ roboflowApiKey = << >>
  /\ mats = {}
  /\ requests = EmptyMap
  /\ timers = {}
  /\ nextRequestId = 0
  /\ pc = 0
  /\ cur = 0
  /\ calls = << >>
  /\ settlements = << >>
  /\ flow = << >>
  /\ toWorker = {}
  /\ jobs = {}
  /\ fromWorker = {}
  /\ fetchCalls = 0

\* the handler of the worker thread advances
WorkerProgress ==
  \/ \E m \in toWorker : WorkerReceive(m)
  \/ \E j \in jobs : WorkerAllocate(j)
  \/ \E j \in jobs, circles \in CircleLists :
       \E rnd \in [1..Len(circles) -> RandomDraws] : WorkerFinishResult(j, circles, rnd)
  \/ \E j \in jobs, why \in HandlerFailures : WorkerFinishError(j, why)
  \/ \E j \in jobs, rnd \in RandomSeqs : WorkerMockResult(j, rnd)
  \/ \E j \in jobs, why \in {"fetch", "blob"} : WorkerMockError(j, why)

WorkerNext ==
  \/ \E inp \in Inputs : DetectBallsWorker(inp)
  \/ \E throws \in BOOLEAN : DetectBallsStep(throws)
  \/ CheckOpenCV
  \/ WorkerProgress

\* every await of the handler settles
WorkerSpec == WorkerInit /\ [][WorkerNext]_vars /\ WF_vars(WorkerProgress)

\* ------------------------------------------- the circle-to-bbox conversion
\* a circle found in an image of some size, not yet converted
ConversionInit ==
  /\ \E d \in Circles, size \in ImageSizes :
       conversion = [d |-> <<d>>, width |-> size[1], height |-> size[2], detection |-> << >>]
  /\ variant = "worker" /\ worker = "worker" /\ workerThread = "running"
  /\ workerScript = "workers/opencv.worker.ts"
  /\ workersCreated = 1
  /\ cvCalls = {}
  /\ bulk = NoBulk
  /\ cvReady = TRUE
  /\ roboflowApiKey = << >>
  /\ mats = {}
  /\ requests = EmptyMap
  /\ timers = {}
  /\ nextRequestId = 0
  /\ pc = 0
  /\ cur = 0
  /\ calls = << >>
  /\ settlements = << >>
  /\ flow = << >>
  /\ toWorker = {}
  /\ jobs = {}
  /\ fromWorker = {}
  /\ fetchCalls = 0

\* detectedBalls.map(d => ({ confidence, bbox })) for the circle at hand
\* (opencv.worker.ts lines 207-215)
Convert ==
  /\ conversion.d # << >> /\ conversion.detection = << >>
  /\ conversion' =
       [conversion EXCEPT
          !.detection = <<ToDetection(conversion.d[1], conversion.width, conversion.height)>>]
  /\ UNCHANGED <<variant, worker, workerThread, cvReady, workerScript, workersCreated, cvCalls, bulk, mats,
                 requests, timers, nextRequestId, pc, cur, calls, settlements, flow, toWorker,
                 jobs, fromWorker, roboflowApiKey, fetchCalls>>

ConversionSpec == ConversionInit /\ [][Convert]_vars

\* ------------------------------------------------- one request, any params
\* an engine served by a worker thread running either script, or the legacy
\* engine with OpenCV loaded; the caller makes one request, with whatever
\* params object, HoughCircles finds up to two circles, and nothing fails
ParamsInit ==
  /\ variant \in {"worker", "legacy"}
  /\ worker = IF variant = "worker" THEN "worker" ELSE "null"
  /\ workerThread = IF variant = "worker" THEN "running" ELSE "none"
  /\ workerScript \in (IF variant = "worker" THEN WorkerScripts ELSE {"workers/opencv.worker.ts"})
  /\ workersCreated = IF variant = "worker" THEN 1 ELSE 0
  /\ cvReady = (variant = "worker")
  /\ conversion = NoConversion
  /\ cvCalls = {}
  /\ bulk = NoBulk
  /\ roboflowApiKey = << >>
  /\ mats = {}
  /\ requests = EmptyMap
  /\ timers = {}
  /\ nextRequestId = 0
  /\ pc = 0
  /\ cur = 0
  /\ calls = << >>
  /\ settlements = << >>
  /\ flow = << >>
  /\ toWorker = {}
  /\ jobs = {}
  /\ fromWorker = {}
  /\ fetchCalls = 0

ParamsNext ==
  \/ calls = << >> /\ \E inp \in ParamInputs : DetectBallsWorker(inp)
  \/ DetectBallsStep(FALSE)
  \/ \E m \in toWorker : WorkerReceive(m)
  \/ \E j \in jobs : WorkerAllocate(j)
  \/ \E j \in jobs, circles \in TestCircleLists :
       \E rnd \in [1..Len(circles) -> RandomDraws] : WorkerFinishResult(j, circles, rnd)
  \/ \E m \in fromWorker : WorkerOnMessage(m, FALSE)
  \/ calls = << >> /\ \E inp \in ParamInputs : DetectWithOpenCV(inp, TRUE)
  \/ \E c \in 1..Len(calls), circles \in TestCircleLists :
       \E rnd \in [1..Len(circles) -> RandomDraws] : OpenCVImageLoad(c, circles, rnd)

ParamsSpec == ParamsInit /\ [][ParamsNext]_vars

\* ----------------------------------------------------------- a bulk upload
\* the component with its remote engine or, as SoccerBallDetector.test.tsx
\* drives it, with a stubbed one; the key configured or not; the user submits
\* single images and one batch of files, and the engine serves its requests
BulkInit ==
  /\ variant \in {"remote", "mock"} /\ worker = "null" /\ workerThread = "none"
  /\ workerScript = "workers/opencv.worker.ts"
  /\ workersCreated = 0
  /\ cvReady = FALSE
  /\ conversion = NoConversion
  /\ cvCalls = {}
  /\ bulk = NoBulk
  /\ roboflowApiKey \in ApiKeys \cup {<< >>}
  /\ mats = {}
  /\ requests = EmptyMap
  /\ timers = {}
  /\ nextRequestId = 0
  /\ pc = 0
  /\ cur = 0
  /\ calls = << >>
  /\ settlements = << >>
  /\ flow = << >>
  /\ toWorker = {}
  /\ jobs = {}
  /\ fromWorker = {}
  /\ fetchCalls = 0

BulkNext ==
  \/ \E key \in ApiKeys : SetApiKey(key)
  \/ \E files \in Batches : ProcessBulkImages(files)
  \/ BulkResume
  \/ ProcessImage(BulkInput(<<"data:image/png">>, "file1.jpg"))
  \/ ProcessImageResume
  \/ UnmountSoccerBallDetector
  \/ \E c \in 1..Len(calls), out \in {"load", "noctx", "error"} : RemoteConvertDone(c, out)
  \/ \E c \in 1..Len(calls), st \in HttpStatuses \cup {0} : RemoteFetchDone(c, st)
  \/ \E c \in 1..Len(calls), ok \in BOOLEAN : RemoteJsonDone(c, ok)
  \/ \E c \in 1..Len(calls), out \in {"load", "noctx", "error"},
        predictions \in PredictionLists : RemoteProcessDone(c, out, predictions)
  \/ \E c \in timers : TimerFireRemote(c)

BulkSpec == BulkInit /\ [][BulkNext]_vars

\* ------------------------------------------------- worker.onmessage alone
\* the responses event.data may be by its declared type (lines 767-768):
\* `result` and `error` are both optional
AnyResponses(m) ==
  { [id |-> m.id, result |-> r, error |-> e] :
      r \in {<< >>, <<MockedResult(m)>>},
      e \in {<< >>, <<[message |-> <<"boom">>, name |-> <<"TypeError">>]>>,
             <<[message |-> << >>, name |-> << >>]>>} }

\* a worker of which only the message protocol is assumed answers request m
\* with response r
WorkerPostsAny(m, r) ==
  /\ variant = "worker" /\ workerThread = "running" /\ m \in toWorker
  /\ toWorker' = toWorker \ {m}
  /\ fromWorker' = fromWorker \cup {r}
  /\ UNCHANGED <<variant, worker, workerThread, cvReady, workerScript, conversion, cvCalls, bulk,
                 workersCreated, mats, requests, timers, nextRequestId, pc, cur, calls,
                 settlements, flow, jobs, roboflowApiKey, fetchCalls>>

\* the worker-based engine with its worker running
HandlerInit ==
  /\ WorkerInit
  /\ workerScript = "workers/opencv.worker.ts" /\ cvReady

HandlerNext ==
  \/ \E inp \in Inputs : DetectBallsWorker(inp)
  \/ \E throws \in BOOLEAN : DetectBallsStep(throws)
  \/ \E c \in timers : TimerFireWorker(c)
  \/ \E m \in toWorker : \E r \in AnyResponses(m) : WorkerPostsAny(m, r)
  \/ \E m \in fromWorker : WorkerOnMessage(m, FALSE)

HandlerSpec == HandlerInit /\ [][HandlerNext]_vars

\* ----------------------------------------------------------------- typing
TypeOK ==
  /\ variant \in {"worker", "remote", "legacy", "mock"}
  /\ worker \in {"worker", "null"}
  /\ workerThread \in {"none", "running", "terminated"}
  /\ pc \in 0..Len(DetectBallsProgram)
  /\ Len(calls) <= MaxCalls /\ Len(settlements) = Len(calls) /\ Len(flow) = Len(calls)
  /\ nextRequestId \in 0..MaxCalls
  /\ timers \subseteq 1..Len(calls)

\* ================================================================== claims
CallIds == 1..Len(calls)
Settled(c) == c <= Len(settlements) /\ settlements[c] # << >>
\* the call that was issued request id `id`
CallOf(id) == CHOOSE c \in CallIds : calls[c].requestId = id
InFlight == toWorker \cup jobs \cup fromWorker
Contains(message, fragment) == \E i \in 1..Len(message) : message[i] = fragment

\* C1: for every detectBalls call, whatever the interleaving of worker
\* responses (late and duplicate ones included), timeouts, worker errors and
\* terminateWorker, the call's resolve and reject are invoked at most once in total.
C1_SettledAtMostOnce == \A c \in CallIds : Len(settlements[c]) <= 1

\* a request that timed out or was terminated while its response was still to
\* be delivered, and one settled by a response of which a second copy is in flight
C1_Witness ==
  /\ \E c \in CallIds, m \in fromWorker :
       /\ m.id = calls[c].requestId /\ Len(settlements[c]) = 1
       /\ settlements[c][1].kind = "reject" /\ m.result # << >>
  /\ \E c \in CallIds, m \in fromWorker :
       /\ m.id = calls[c].requestId /\ Len(settlements[c]) = 1
       /\ settlements[c][1].kind = "resolve"

\* C2: every request accepted by detectBalls is eventually resolved or
\* rejected, given that armed timers eventually fire.
C2_EventuallySettled ==
  \A c \in 1..MaxCalls : (c <= Len(calls)) ~> Settled(c)

\* C3: a response tagged with id t settles exactly the request that was issued
\* id t, with the payload the response carries, and settles no other request.
C3_CorrelatedByToken ==
  [][\A m \in fromWorker, keep \in BOOLEAN :
       (WorkerOnMessage(m, keep) /\ m.id \in DOMAIN requests) =>
         LET c == CallOf(m.id) IN
           /\ Len(settlements'[c]) = Len(settlements[c]) + 1
           /\ LET o == settlements'[c][Len(settlements'[c])] IN
                /\ (o.kind = "resolve") = (m.error = << >> /\ m.result # << >>)
                /\ o.kind = "resolve" =>
                     /\ o.value = m.result
                     /\ o.value[1].fileName = calls[c].fileName
                     /\ o.value[1].originalImageUrl = calls[c].imageUrl
                /\ (o.kind = "reject" /\ m.error # << >>) =>
                     o.error[1].message = m.error[1].message
           /\ \A d \in CallIds \ {c} : settlements'[d] = settlements[d]
           /\ m.id \notin DOMAIN requests'
           /\ \A k \in DOMAIN requests \ {m.id} :
                k \in DOMAIN requests' /\ requests'[k] = requests[k]]_vars

\* two requests were in flight and the response of the later one came back
\* first: the later one is settled, the earlier one still pending
C3_Witness ==
  \E c, d \in CallIds :
    /\ c < d /\ calls[c].path = "worker" /\ calls[d].path = "worker"
    /\ calls[c].requestId \in DOMAIN requests /\ settlements[c] = << >>
    /\ Len(settlements[d]) = 1 /\ settlements[d][1].kind = "resolve"

\* the remote call of c completes in this step, one way or the other
RemoteCompletes(c) ==
  \/ \E out \in {"load", "noctx", "error"}, predictions \in PredictionLists :
       RemoteProcessDone(c, out, predictions)
  \/ \E out \in {"noctx", "error"} : RemoteConvertDone(c, out)
  \/ \E st \in {0, 500} : RemoteFetchDone(c, st)
  \/ RemoteJsonDone(c, FALSE)

\* C4: a worker response, or a completed remote call, for a token that is no
\* longer in the pending map changes no engine state and settles nothing again.
C4_LateResponseDropped ==
  [][/\ \A m \in fromWorker, keep \in BOOLEAN :
          (WorkerOnMessage(m, keep) /\ m.id \notin DOMAIN requests) =>
            UNCHANGED <<worker, requests, timers, nextRequestId, settlements>>
     /\ \A c \in CallIds :
          (RemoteCompletes(c) /\ calls[c].requestId \notin DOMAIN requests) =>
            UNCHANGED <<roboflowApiKey, requests, timers, nextRequestId, settlements>>]_vars

\* a response is in flight for a settled request of the worker engine, and a
\* remote call that timed out has completed since
C4_Witness ==
  \/ \E c \in CallIds, m \in fromWorker :
       m.id = calls[c].requestId /\ Len(settlements[c]) = 1
  \/ \E c \in CallIds :
       /\ calls[c].path = "remote" /\ flow[c] = "none" /\ Len(settlements[c]) = 1
       /\ settlements[c][1].kind = "reject"
       /\ Contains(settlements[c][1].error[1].message, "Request timed out after ")

ErrorOf(o) == o.error[1]
TimedOut(c) ==
  /\ Settled(c) /\ settlements[c][1].kind = "reject"
  /\ \/ Contains(ErrorOf(settlements[c][1]).message, "Request to worker timed out after ")
     \/ Contains(ErrorOf(settlements[c][1]).message, "Request timed out after ")

\* C5: when the 30000 ms timer of a request fires while its token is still
\* pending, the token is removed from the pending map and the request is
\* rejected with a timeout error carrying the display name and the duration (30 s);
\* whatever arrives for it later changes nothing of what it was settled with.
C5_TimeoutRejects ==
  [][/\ \A c \in timers :
          ((TimerFireWorker(c) \/ TimerFireRemote(c))
             /\ calls[c].requestId \in DOMAIN requests) =>
            /\ calls[c].requestId \notin DOMAIN requests'
            /\ \A k \in DOMAIN requests \ {calls[c].requestId} :
                 k \in DOMAIN requests' /\ requests'[k] = requests[k]
            /\ settlements[c] = << >>
            /\ Len(settlements'[c]) = 1 /\ settlements'[c][1].kind = "reject"
            /\ Contains(ErrorOf(settlements'[c][1]).message, calls[c].fileName)
            /\ Contains(ErrorOf(settlements'[c][1]).message, "30")
            /\ TimeoutMs = 30 * 1000
            /\ TimedOut(c)'
     /\ \A c \in CallIds : TimedOut(c) => settlements'[c] = settlements[c]]_vars

\* a request timed out and its response was delivered afterwards
C5_Witness ==
  \E c \in CallIds :
    /\ TimedOut(c) /\ calls[c].path = "worker"
    /\ \A m \in InFlight : m.id # calls[c].requestId
    /\ workerThread = "running" /\ worker = "worker"

TerminatedMessages ==
  { <<"Worker terminated by explicit call.">>, <<"Detection engine terminated.">> }
Terminated(c) ==
  /\ Settled(c) /\ settlements[c][1].kind = "reject"
  /\ ErrorOf(settlements[c][1]).message \in TerminatedMessages

\* C6: terminateWorker rejects every pending request with a "terminated"
\* error within the call, clears their timers, empties the pending map and
\* releases the worker; a timer disarmed that way is never armed again.
C6_TerminateRejectsAll ==
  [][/\ TerminateWorker =>
          /\ \A c \in Promises(requests) :
               /\ settlements[c] = << >>
               /\ Len(settlements'[c]) = 1 /\ Terminated(c)'
          /\ \A c \in CallIds \ Promises(requests) : settlements'[c] = settlements[c]
          /\ timers' \cap Timers(requests) = {}
          /\ requests' = EmptyMap
          /\ variant = "worker" => worker' = "null" /\ workerThread' # "running"
     /\ \A c \in CallIds : (c \notin timers /\ pc = 0) => c \notin timers']_vars

\* terminateWorker was called with two requests pending
C6_Witness ==
  /\ \E c, d \in CallIds : c # d /\ Terminated(c) /\ Terminated(d)
  /\ requests = EmptyMap /\ timers = {}

\* C7: a second terminateWorker call right after a first one changes nothing:
\* no engine state changes and no request is rejected again.
C7_SecondTerminateNoOp ==
  [][TerminateWorker => TerminateWorkerOf(Engine)' = Engine']_vars

\* terminateWorker has rejected a pending request
C7_Witness ==
  /\ \E c \in CallIds : Terminated(c)
  /\ requests = EmptyMap /\ TerminateWorkerOf(Engine) = Engine

WorkerFailed(c) ==
  /\ Settled(c) /\ settlements[c][1].kind = "reject"
  /\ ErrorOf(settlements[c][1]).message[1] = "Worker failed: "

\* C8: worker.onerror with N requests pending rejects all N with a
\* worker-failure error, clears their timers, empties the pending map and
\* drops the worker, which is never posted to again.
C8_WorkerErrorRejectsAll ==
  [][/\ \A emsg \in FaultMessages :
          WorkerOnError(emsg) =>
            /\ \A c \in Promises(requests) :
                 /\ settlements[c] = << >>
                 /\ Len(settlements'[c]) = 1 /\ WorkerFailed(c)'
            /\ \A c \in CallIds \ Promises(requests) : settlements'[c] = settlements[c]
            /\ timers' \cap Timers(requests) = {}
            /\ requests' = EmptyMap
            /\ worker' = "null"
     /\ (variant = "worker" /\ worker = "null") =>
          /\ worker' = "null"
          /\ toWorker' \subseteq toWorker]_vars

\* the worker failed with two requests pending, and a call was made afterwards
C8_Witness ==
  /\ \E c, d \in CallIds : c # d /\ WorkerFailed(c) /\ WorkerFailed(d)
  /\ requests = EmptyMap /\ worker = "null"

SendFailed(c) ==
  /\ Settled(c) /\ settlements[c][1].kind = "reject"
  /\ ErrorOf(settlements[c][1]).message[1] = "Failed to send message to worker: "

\* C9: when postMessage throws, detectBalls removes the entry it has just
\* registered, clears its timer and rejects the request with a send-failure
\* error; the pending map and the armed timers are what they were before the
\* call (registration added exactly the new entry and timer, nothing touched
\* them in between, and the catch block removes exactly those).
C9_SendFailureCleansUp ==
  [][/\ (pc > 0 /\ DetectBallsProgram[pc] = "postMessage" /\ DetectBallsStep(TRUE)) =>
          /\ requests' = MapDelete(requests, calls[cur].requestId)
          /\ timers' = timers \ {cur}
          /\ settlements[cur] = << >>
          /\ \E c \in CallIds : c = cur /\ Len(settlements'[c]) = 1 /\ SendFailed(c)'
          /\ \A c \in CallIds \ {cur} : settlements'[c] = settlements[c]
          /\ toWorker' = toWorker
     /\ (pc > 0 /\ DetectBallsProgram[pc] = "requests.set" /\ DetectBallsStep(FALSE)) =>
          /\ calls[cur].requestId \notin DOMAIN requests
          /\ cur \notin timers
          /\ MapDelete(requests', calls[cur].requestId) = requests
          /\ timers' \ {cur} = timers
     /\ (pc > 0 /\ pc' = pc) => UNCHANGED <<requests, timers>>]_vars

\* a send failed while another request was pending, which still is, timer armed
C9_Witness ==
  \E c, d \in CallIds :
    /\ SendFailed(c) /\ calls[c].requestId \notin DOMAIN requests /\ c \notin timers
    /\ d < c /\ calls[d].requestId \in DOMAIN requests /\ d \in timers
    /\ pc = 0

\* C10: the pending entry of a request is in the map before its message is
\* sent: every message on its way to the worker, being handled by it, or on its
\* way back carries the id of a request that is registered (or was, and has
\* been settled since).
C10_RegisteredBeforeSend ==
  \A m \in InFlight :
    \E c \in CallIds :
      /\ calls[c].requestId = m.id
      /\ m.id \in DOMAIN requests \/ Settled(c)

\* the message of a pending, unsettled request has been handled by the worker
\* and its response is on its way back while detectBalls is running for another
C10_Witness ==
  /\ pc > 0
  /\ \E m \in fromWorker : m.id \in DOMAIN requests /\ ~Settled(CallOf(m.id))

\* the calls that were given a request id (worker engine with a worker, remote
\* engine with a key)
Dispatched == {c \in CallIds : calls[c].requestId # NoId}

\* C11: within one engine no two dispatched requests get the same token: the
\* request counter goes up by exactly one with each dispatched request and is
\* changed by nothing else (responses, timeouts, worker errors, terminateWorker).
C11_TokensUnique ==
  [][/\ nextRequestId' \in {nextRequestId, nextRequestId + 1}
     /\ (nextRequestId' = nextRequestId + 1) <=>
          /\ Len(calls') = Len(calls) + 1
          /\ calls'[Len(calls')].requestId = RequestId(nextRequestId)
     /\ (Len(calls') = Len(calls)) => nextRequestId' = nextRequestId
     /\ \A c, d \in Dispatched' : c # d => calls'[c].requestId # calls'[d].requestId]_vars

\* a request was dispatched after an earlier one had timed out or had been
\* terminated, and got another token
C11_Witness ==
  /\ nextRequestId = 2
  /\ \E c, d \in Dispatched :
       /\ c < d /\ (TimedOut(c) \/ Terminated(c))
       /\ calls[c].requestId = RequestId(0) /\ calls[d].requestId = RequestId(1)

\* the dispatched calls that are registered: all but the one whose detectBalls
\* has taken its id and not yet reached this.requests.set
Registered == {c \in Dispatched : ~(pc = 1 /\ c = cur)}

\* C12: the pending map holds exactly the tokens of the requests that were
\* dispatched and are not yet settled (by a response, a timeout, a failure or
\* a shutdown), each entry belonging to the request that was given the token;
\* an entry is inserted once, for the request being dispatched, and a token
\* that has left the map never comes back.
C12_PendingMapExact ==
  [][/\ DOMAIN requests' = {calls'[c].requestId : c \in {d \in Registered' : ~Settled(d)'}}
     /\ \A k \in DOMAIN requests' :
          /\ requests'[k].promise = CallOf(k)' /\ requests'[k].timer = CallOf(k)'
     /\ \A k \in DOMAIN requests' \ DOMAIN requests :
          /\ k = RequestId(nextRequestId' - 1)
          /\ DOMAIN requests' = DOMAIN requests \cup {k}
          /\ settlements'[CallOf(k)'] = << >>
     /\ \A c \in Dispatched :
          (Settled(c) \/ (c \in Registered /\ calls[c].requestId \notin DOMAIN requests))
            => calls[c].requestId \notin DOMAIN requests']_vars

\* of two dispatched requests one has been settled and has left the map, the
\* other is the only entry left
C12_Witness ==
  \E c, d \in Dispatched :
    /\ c # d /\ Settled(c) /\ calls[c].requestId \notin DOMAIN requests
    /\ ~Settled(d) /\ DOMAIN requests = {calls[d].requestId}
    /\ requests[calls[d].requestId].promise = d

\* the request message of call c has been posted to the worker
Sent(c) ==
  /\ c \in Dispatched /\ calls[c].path = "worker"
  /\ ~(c = cur /\ pc > 0) /\ ~SendFailed(c)
\* the worker has received it
Received(c) == Sent(c) /\ \A m \in toWorker : m.id # calls[c].requestId
\* the worker's handler has finished with it
Handled(c) == Received(c) /\ \A j \in jobs : j.id # calls[c].requestId
\* the responses posted so far that carry the id of call c
Responses(c) == {r \in fromWorker : r.id = calls[c].requestId}

\* C13: for every request message the worker receives it posts exactly one
\* response with the same id, holding either a result or an error and not
\* both: none before the handler is done, one from then on, and the handler
\* does get done (on success, when a step throws, when cv is not ready).
C13_OneResponsePerRequest ==
  /\ [](/\ \A c \in Dispatched :
             /\ Cardinality(Responses(c)) = IF Handled(c) THEN 1 ELSE 0
             /\ \A r \in Responses(c) :
                  /\ (r.result # << >>) # (r.error # << >>)
                  /\ r.result # << >> => r.result[1].fileName = calls[c].fileName
        /\ \A r \in fromWorker : \E c \in Dispatched : r \in Responses(c))
  /\ \A c \in 1..MaxCalls :
       (c <= Len(calls) /\ Received(c)) ~> (c <= Len(calls) /\ Responses(c) # {})

\* the worker has answered one request with a result and another with an error
C13_Witness ==
  \E c, d \in Dispatched :
    /\ Handled(c) /\ Handled(d)
    /\ \E r \in Responses(c) : r.result # << >> /\ r.error = << >>
    /\ \E r \in Responses(d) : r.result = << >> /\ r.error # << >>

\* the calls served by fallbackDetection
FallbackCalls == {c \in CallIds : calls[c].path = "fallback"}

\* C14: when the engine has no worker (never had one, lost it to a fatal
\* error, or released it), detectBalls hands the request to the in-process
\* detection: it takes no token, posts no message and creates no pending entry
\* or timer; the future it returns is settled once, with a result for the
\* submitted image or with a rejection, and until then the event that will
\* settle it (the delay, then the image's load or error) is outstanding.
C14_FallbackWithoutWorker ==
  [][/\ \A inp \in Inputs :
          (DetectBallsWorker(inp) /\ worker = "null") =>
            /\ Len(calls') = Len(calls) + 1
            /\ calls'[Len(calls')].path = "fallback"
            /\ calls'[Len(calls')].requestId = NoId
            /\ settlements'[Len(calls')] = << >>
            /\ UNCHANGED <<worker, requests, timers, nextRequestId, toWorker, jobs,
                           fromWorker, pc>>
     /\ \A c \in FallbackCalls' :
          /\ (settlements'[c] = << >>) = (flow'[c] \in {"sleep", "loading"})
          /\ Len(settlements'[c]) <= 1
          /\ \A o \in SeqRange(settlements'[c]) :
               o.kind = "resolve" =>
                 /\ o.value[1].fileName = calls'[c].fileName
                 /\ o.value[1].originalImageUrl = calls'[c].imageUrl
                 /\ Len(o.value[1].detections) \in 1..3
          /\ c \notin timers'
          /\ \A k \in DOMAIN requests' : requests'[k].promise # c
     /\ \A c \in FallbackCalls :
          /\ flow[c] = "sleep" => flow'[c] \in {"sleep", "loading"}
          /\ flow[c] = "none" => flow'[c] = "none" /\ settlements'[c] = settlements[c]]_vars

\* the worker was lost to a fatal error with a request pending, and a request
\* made afterwards was served in-process and resolved
C14_Witness ==
  \E c \in CallIds, d \in FallbackCalls :
    /\ c < d /\ WorkerFailed(c) /\ worker = "null" /\ workerThread = "running"
    /\ Len(settlements[d]) = 1 /\ settlements[d][1].kind = "resolve"

\* C15: an engine constructs at most one worker in its lifetime, in its
\* constructor: no call, response, timeout, worker error or terminateWorker
\* constructs one, so a worker that was lost or released is never replaced.
C15_OneWorker ==
  [][/\ workersCreated' = workersCreated
     /\ workersCreated' <= 1
     /\ worker' = "worker" => (worker = "worker" /\ workersCreated' = 1)
     /\ workerThread' = "running" => workerThread = "running"
     /\ workerThread' = "none" => workersCreated' = 0]_vars

\* the worker was released by terminateWorker and requests were made since
C15_Witness ==
  /\ workersCreated = 1 /\ worker = "null" /\ workerThread = "terminated"
  /\ \E c \in CallIds, d \in FallbackCalls : c < d /\ Terminated(c) /\ Settled(d)

\* the calls made on the remote engine while it had no API key
NoKeyCalls == {c \in CallIds : calls[c].path = "nokey"}
CredentialMissing(c) == settlements[c] = <<Reject(ApiKeyRequiredError)>>

\* C16: detectBalls of the remote engine without an API key rejects at once
\* with the key-required error: no fetch is made, no token is taken, no
\* pending entry or timer is created, the engine's state stays as it was, and
\* nothing is outstanding for the call afterwards.
C16_NoKeyRejects ==
  [][/\ \A inp \in Inputs :
          (DetectBallsRemote(inp) /\ roboflowApiKey = << >>) =>
            /\ Len(calls') = Len(calls) + 1
            /\ calls'[Len(calls')].requestId = NoId
            /\ Len(calls') \in NoKeyCalls'
            /\ settlements'[Len(calls')] = <<Reject(ApiKeyRequiredError)>>
            /\ ErrorOf(settlements'[Len(calls')][1]).message
                  = <<"Roboflow API key is required. Please set your API key first.">>
            /\ UNCHANGED <<fetchCalls, nextRequestId, requests, timers, roboflowApiKey>>
            /\ \A c \in CallIds : settlements'[c] = settlements[c] /\ flow'[c] = flow[c]
     /\ \A c \in NoKeyCalls' :
          /\ CredentialMissing(c)' /\ flow'[c] = "none"
          /\ c \notin timers' /\ \A k \in DOMAIN requests' : requests'[k].promise # c]_vars

\* a call was rejected for want of a key; after setApiKey the next call took
\* the first token and made the first fetch
C16_Witness ==
  \E c \in NoKeyCalls, d \in Dispatched :
    /\ c < d /\ CredentialMissing(c)
    /\ calls[d].requestId = RequestId(0) /\ nextRequestId = 1
    /\ fetchCalls = 1 /\ flow[d] = "fetch"

RemoteServiceError(c) ==
  /\ Len(settlements[c]) = 1 /\ settlements[c][1].kind = "reject"
  /\ ErrorOf(settlements[c][1]).message[1] = "Roboflow API error: "

\* C17: when the inference call of a pending request comes back with a
\* non-success status, the request is rejected with a Roboflow API error whose
\* message holds the status code, its pending entry and timer are removed, the
\* response body is not processed, and no result is ever produced for it.
C17_NonSuccessStatusRejects ==
  [][/\ \A c \in CallIds, st \in HttpStatuses :
          (RemoteFetchDone(c, st) /\ ~ResponseOk(st)
             /\ calls[c].requestId \in DOMAIN requests) =>
            /\ settlements[c] = << >>
            /\ RemoteServiceError(c)'
            /\ Contains(ErrorOf(settlements'[c][1]).message, ToString(st))
            /\ requests' = MapDelete(requests, calls[c].requestId)
            /\ timers' = timers \ {c}
            /\ flow'[c] = "none"
            /\ fetchCalls' = fetchCalls
            /\ \A d \in CallIds \ {c} : settlements'[d] = settlements[d]
     /\ \A c \in CallIds :
          RemoteServiceError(c) =>
            /\ settlements'[c] = settlements[c] /\ flow'[c] = "none"
            /\ calls[c].requestId \notin DOMAIN requests' /\ c \notin timers']_vars

\* one request was rejected for a status 500 while another is still pending
C17_Witness ==
  \E c, d \in CallIds :
    /\ RemoteServiceError(c) /\ Contains(ErrorOf(settlements[c][1]).message, "500")
    /\ calls[c].requestId \notin DOMAIN requests /\ c \notin timers
    /\ calls[d].requestId \in DOMAIN requests /\ d \in timers /\ settlements[d] = << >>

NoDuplicates(q) == \A i, k \in 1..Len(q) : q[i] = q[k] => i = k
\* the handles that belong to a request whose handling is still going on
InUse == {Mat(j.id, name) : j \in jobs, name \in {"src", "gray", "circles", "blurred"}}
\* the worker's handler: every handle of the request is deleted, once, when
\* its handling ends
WorkerReleasesAll ==
  /\ \A j \in jobs, circles \in CircleLists :
       \A rnd \in [1..Len(circles) -> RandomDraws] :
         WorkerFinishResult(j, circles, rnd) =>
           /\ NoDuplicates(FinallyDeletes(Live(j.id)))
           /\ SeqRange(FinallyDeletes(Live(j.id))) = Live(j.id)
           /\ Live(j.id) = {"src", "gray", "circles", "blurred"}
           /\ Live(j.id)' = {}
  /\ \A j \in jobs, why \in HandlerFailures :
       WorkerFinishError(j, why) =>
         LET locals == IF why = "blob" THEN Live(j.id) ELSE AllocatedAt(why) IN
           /\ NoDuplicates(FinallyDeletes(locals))
           /\ SeqRange(FinallyDeletes(locals)) = locals
           /\ Live(j.id)' = {}

\* C18: every native handle allocated while a detection request is handled
\* (src, gray, blurred, circles) is deleted exactly once by the time the
\* handling ends, on success and when a step throws, also with several
\* requests interleaved: no handle outlives the handling of its request.
C18_HandlesReleased ==
  [][/\ WorkerReleasesAll
     /\ mats' \subseteq InUse']_vars

\* arithmetic on fractions
FracEq(a, b) == a[1] * b[2] = b[1] * a[2]
FracAdd(a, b) == <<a[1] * b[2] + b[1] * a[2], a[2] * b[2]>>
FracMul(a, b) == <<a[1] * b[1], a[2] * b[2]>>
\* a non-negative fraction times 10^4, rounded to the nearest integer
Round4(a) == (2 * 10000 * a[1] + a[2]) \div (2 * a[2])
Converted == conversion.detection # << >>

\* C19: for a circle with centre (cx, cy) and radius r in an image W wide and
\* H high, the bounding box of the Detection is x = (cx - r) / W,
\* y = (cy - r) / H, width = 2r / W, height = 2r / H; for the circle
\* (10, 20), r = 5 in a 200 x 150 image that is x = 0.025, y = 0.1,
\* width = 0.05 and height = 0.0667 (to four decimals).
C19_BBoxOfCircle ==
  Converted =>
    LET d == conversion.d[1]
        W == conversion.width
        H == conversion.height
        bbox == conversion.detection[1].bbox IN
      /\ bbox.x[1] * W = (d.x - d.radius) * bbox.x[2]
      /\ bbox.y[1] * H = (d.y - d.radius) * bbox.y[2]
      /\ bbox.width[1] * W = 2 * d.radius * bbox.width[2]
      /\ bbox.height[1] * H = 2 * d.radius * bbox.height[2]
      /\ bbox.x[2] # 0 /\ bbox.y[2] # 0 /\ bbox.width[2] # 0 /\ bbox.height[2] # 0
      /\ (W = 200 /\ H = 150 /\ d.x = 10 /\ d.y = 20 /\ d.radius = 5) =>
           /\ FracEq(bbox.x, <<25, 1000>>)
           /\ FracEq(bbox.y, <<1, 10>>)
           /\ FracEq(bbox.width, <<5, 100>>)
           /\ Round4(bbox.height) = 667

\* the circle (10, 20), r = 5 of a 200 x 150 image has been converted
C19_Witness ==
  /\ Converted
  /\ conversion.width = 200 /\ conversion.height = 150
  /\ conversion.d[1].x = 10 /\ conversion.d[1].y = 20 /\ conversion.d[1].radius = 5

\* C20: the centre and the radius of the circle are recovered from its
\* bounding box and the image size: cx = (x + width / 2) * W,
\* cy = (y + height / 2) * H, r = width * W / 2.
C20_BBoxInvertible ==
  Converted =>
    LET d == conversion.d[1]
        W == conversion.width
        H == conversion.height
        bbox == conversion.detection[1].bbox
        half == <<1, 2>> IN
      /\ FracEq(FracMul(FracAdd(bbox.x, FracMul(bbox.width, half)), <<W, 1>>), <<d.x, 1>>)
      /\ FracEq(FracMul(FracAdd(bbox.y, FracMul(bbox.height, half)), <<H, 1>>), <<d.y, 1>>)
      /\ FracEq(FracMul(FracMul(bbox.width, <<W, 1>>), half), <<d.radius, 1>>)
      /\ FracMul(bbox.width, <<W, 1>>)[2] # 0

\* a circle that reaches over the left and upper edge of a 640 x 480 image
\* has been converted
C20_Witness ==
  /\ Converted
  /\ conversion.width = 640 /\ conversion.height = 480
  /\ conversion.d[1].x = 0 /\ conversion.d[1].y = 0 /\ conversion.d[1].radius = 15
  /\ conversion.detection[1].bbox.x[1] < 0

\* a result that reports no circle: no detections, and the encoded image
EmptyResult(result) == result.detections = << >> /\ result.imageUrl = "data:image/png"
ResolvedEmpty(c) ==
  /\ Len(settlements[c]) = 1 /\ settlements[c][1].kind = "resolve"
  /\ EmptyResult(settlements[c][1].value[1])

\* C21: when the backend reports no circle, the request is resolved, not
\* rejected, with an empty list of detections and an encoded image: the
\* worker posts such a result, the engine resolves the pending request with
\* it, and detectWithOpenCV of the legacy engine resolves the same way.
C21_ZeroCirclesResolves ==
  [][/\ \A j \in jobs :
          WorkerFinishResult(j, << >>, << >>) =>
            \E r \in fromWorker' :
              /\ r.id = j.id /\ r.error = << >> /\ r.result # << >>
              /\ EmptyResult(r.result[1])
     /\ \A m \in fromWorker, keep \in BOOLEAN :
          (/\ WorkerOnMessage(m, keep) /\ m.id \in DOMAIN requests
           /\ m.error = << >> /\ m.result # << >> /\ EmptyResult(m.result[1])) =>
            /\ settlements[CallOf(m.id)] = << >>
            /\ ResolvedEmpty(CallOf(m.id))'
     /\ \A c \in CallIds :
          OpenCVImageLoad(c, << >>, << >>) => settlements[c] = << >> /\ ResolvedEmpty(c)']_vars

\* a request of the worker engine was resolved with no detections
C21_Witness ==
  \E c \in CallIds : calls[c].path = "worker" /\ ResolvedEmpty(c) /\ worker = "worker"

\* the params object of the request the handler run of `owner` served
ParamsOf(owner) ==
  IF variant = "legacy" THEN calls[owner].params ELSE calls[CallOf(owner)].params

\* v is the kernel size the claim prescribes for the params object
CoercedKernel(params, v) ==
  LET k == Field(params, "blurKernelSize") IN
  /\ v > 0 /\ v % 2 = 1
  /\ (k # << >> /\ k[1] > 0 /\ k[1] % 2 = 1) => v = k[1]
  /\ (k # << >> /\ k[1] > 0 /\ k[1] % 2 = 0) => v = k[1] + 1
  /\ (k = << >> \/ k[1] <= 0) => v = 5

\* C22: the kernel size passed to the blur is always a positive odd integer:
\* k for a positive odd blurKernelSize k, k + 1 for a positive even one, and 5
\* when blurKernelSize is absent, zero or negative.
C22_KernelSizeCoerced ==
  \A call \in cvCalls :
    /\ call.GaussianBlur.width = call.GaussianBlur.height
    /\ CoercedKernel(ParamsOf(call.owner), call.GaussianBlur.width)

\* the same for the handler runs of the worker thread alone
WorkerKernelSizeCoerced == variant = "worker" => C22_KernelSizeCoerced

\* the step rejects call c with an error whose message is `message`, unless the
\* call had been settled before (its token is unknown by then)
Surfaces(c, message) ==
  settlements[c] = << >> =>
    /\ Len(settlements'[c]) = 1 /\ settlements'[c][1].kind = "reject"
    /\ ErrorOf(settlements'[c][1]).message = message

\* every step at which an error is raised while a request is served on the
\* main thread, or at which the worker's error report is delivered, rejects the
\* request with the underlying message
ErrorsSurfaceOnMainThread ==
  /\ \A m \in fromWorker, keep \in BOOLEAN :
       (/\ WorkerOnMessage(m, keep) /\ m.error # << >> /\ m.error[1].message # << >>
        /\ m.id \in DOMAIN requests) =>
         Surfaces(CallOf(m.id), m.error[1].message)
  /\ \A c \in CallIds :
       /\ FallbackImageError(c) => Surfaces(c, <<"Failed to load image: ", calls[c].fileName>>)
       /\ (\E rnd \in RandomSeqs : FallbackImageLoad(c, FALSE, rnd)) =>
            Surfaces(c, <<"Could not get canvas context">>)
       /\ RemoteConvertDone(c, "noctx") => Surfaces(c, <<"Could not get canvas context">>)
       /\ RemoteConvertDone(c, "error") =>
            Surfaces(c, <<"Failed to load image: ">> \o calls[c].imageUrl)
       /\ RemoteFetchDone(c, 0) => Surfaces(c, <<"Failed to fetch">>)
       /\ \A st \in HttpStatuses :
            (RemoteFetchDone(c, st) /\ ~ResponseOk(st)) =>
              Surfaces(c, RoboflowApiError(st).message)
       /\ RemoteJsonDone(c, FALSE) => Surfaces(c, <<"Unexpected token">>)
       /\ \A predictions \in PredictionLists :
            /\ RemoteProcessDone(c, "noctx", predictions) =>
                 Surfaces(c, <<"Could not get canvas context">>)
            /\ RemoteProcessDone(c, "error", predictions) =>
                 Surfaces(c, <<"Failed to load image: ", calls[c].fileName>>)

\* every error raised in the worker's handler is reported to the main thread
\* with its message, and with no result
ErrorsReportedByWorker ==
  \A j \in jobs, why \in HandlerFailures :
    WorkerFinishError(j, why) =>
      \E r \in fromWorker' \ fromWorker :
        /\ r.id = j.id /\ r.result = << >> /\ r.error # << >>
        /\ r.error[1].message = WorkerThrown(j, why).message

\* every error raised while the legacy engine serves a request rejects it
ErrorsSurfaceInLegacy ==
  \A c \in CallIds :
    /\ LegacyImageError(c) => Surfaces(c, <<"Failed to load image: ", calls[c].fileName>>)
    /\ OpenCVImageError(c) => Surfaces(c, <<"Failed to load image: ", calls[c].fileName>>)
    /\ OpenCVImageLoadThrows(c, "mat") => settlements[c] = << >> /\ settlements'[c] # << >>
    /\ OpenCVImageLoadThrows(c, "cv") => Surfaces(c, <<"cv.cvtColor failed badly">>)
    /\ (\E rnd \in RandomSeqs : LegacyImageLoad(c, rnd) /\ flow[c] = "simple") =>
         settlements'[c] = settlements[c]

\* C23: every error raised while a request is served (image load, remote
\* call, detection or annotation step) rejects that request with the underlying
\* message; none is swallowed or turned into a successful result, and the only
\* message dropped is a response for an unknown token.
C23_ErrorsSurface ==
  [][ErrorsSurfaceOnMainThread /\ ErrorsReportedByWorker /\ ErrorsSurfaceInLegacy]_vars

\* the same without the legacy engine
ErrorsSurfaceWorkerRemote ==
  [][ErrorsSurfaceOnMainThread /\ ErrorsReportedByWorker]_vars

\* the message holds the fragments of `name` in a row
Names(message, name) ==
  \E i \in 1..Len(message) :
    i + Len(name) - 1 <= Len(message) /\ SubSeq(message, i, i + Len(name) - 1) = name

\* the step rejects call c, unless settled before, with an error that names
\* the image URL or the file name of the call
RejectsNamingSource(c) ==
  settlements[c] = << >> =>
    /\ Len(settlements'[c]) = 1 /\ settlements'[c][1].kind = "reject"
    /\ \/ Names(ErrorOf(settlements'[c][1]).message, calls[c].imageUrl)
       \/ Names(ErrorOf(settlements'[c][1]).message, <<calls[c].fileName>>)

\* a load failure in the worker is reported with the source in the message,
\* and the report rejects the request with that message
LoadFailureInWorker ==
  /\ \A j \in jobs :
       WorkerFinishError(j, "fetch") =>
         \E r \in fromWorker' \ fromWorker :
           /\ r.id = j.id /\ r.result = << >> /\ r.error # << >>
           /\ Names(r.error[1].message, j.imageUrl) \/ Names(r.error[1].message, <<j.fileName>>)
  /\ \A m \in fromWorker, keep \in BOOLEAN :
       (/\ WorkerOnMessage(m, keep) /\ m.error # << >> /\ m.id \in DOMAIN requests
        /\ Names(m.error[1].message, <<"Failed to fetch image from ">>)) =>
         RejectsNamingSource(CallOf(m.id))

\* a load failure on the main thread rejects the request
LoadFailureOnMainThread ==
  \A c \in CallIds :
    /\ FallbackImageError(c) => RejectsNamingSource(c)
    /\ RemoteConvertDone(c, "error") => RejectsNamingSource(c)
    /\ \A predictions \in PredictionLists :
         RemoteProcessDone(c, "error", predictions) => RejectsNamingSource(c)

LoadFailureInLegacy ==
  \A c \in CallIds :
    /\ LegacyImageError(c) => RejectsNamingSource(c)
    /\ OpenCVImageError(c) => RejectsNamingSource(c)

\* C24: if the source image cannot be fetched or decoded, the request is
\* rejected with a load-failure error that names the source; it is never left
\* unsettled and never resolved with a result.
C24_LoadFailureRejects ==
  [][LoadFailureInWorker /\ LoadFailureOnMainThread /\ LoadFailureInLegacy]_vars

\* the same without the legacy engine
LoadFailureWorkerRemote == [][LoadFailureInWorker /\ LoadFailureOnMainThread]_vars

\* the step is the timeout of call c, or the delivery of what settles it
SettlingStep(c) ==
  \/ TimerFireWorker(c) \/ TimerFireRemote(c)
  \/ \E m \in fromWorker, keep \in BOOLEAN :
       m.id = calls[c].requestId /\ WorkerOnMessage(m, keep)
  \/ \E out \in {"noctx", "error"} : RemoteConvertDone(c, out)
  \/ \E st \in HttpStatuses \cup {0} : RemoteFetchDone(c, st)
  \/ \E ok \in BOOLEAN : RemoteJsonDone(c, ok)
  \/ \E out \in {"load", "noctx", "error"}, predictions \in PredictionLists :
       RemoteProcessDone(c, out, predictions)

\* the step leaves the pending entry, the timer and the promise of call d alone
Untouched(d) ==
  /\ settlements'[d] = settlements[d]
  /\ (d \in timers) = (d \in timers')
  /\ (calls[d].requestId \in DOMAIN requests) = (calls[d].requestId \in DOMAIN requests')
  /\ calls[d].requestId \in DOMAIN requests =>
       requests'[calls[d].requestId] = requests[calls[d].requestId]

Pending(c) == calls[c].requestId \in DOMAIN requests

\* C25: when one request times out or is settled by its response, the
\* pending entries and timers of every other in-flight request are left
\* unchanged, and a request whose neighbour has been settled is still settled
\* by its own timer or its own response.
C25_TimeoutsIndependent ==
  [][\A c \in CallIds :
       /\ SettlingStep(c) => \A d \in CallIds \ {c} : Untouched(d)
       /\ (/\ \E d \in CallIds \ {c} : Settled(d)
           /\ Pending(c) /\ c \in timers) =>
            /\ TimerFireWorker(c) => settlements'[c] = <<Reject(TimeoutErrorWorker(c))>>
            /\ TimerFireRemote(c) => settlements'[c] = <<Reject(TimeoutErrorRemote(c))>>
            /\ \A m \in fromWorker, keep \in BOOLEAN :
                 (m.id = calls[c].requestId /\ WorkerOnMessage(m, keep)) =>
                   settlements'[c] = <<MessageOutcome(m)>>]_vars

\* one request has timed out while another is pending with its timer armed
\* and its response on the way
C25_Witness ==
  /\ \E c, d \in CallIds :
       /\ c # d /\ TimedOut(c) /\ ~Settled(d) /\ Pending(d) /\ d \in timers
       /\ \E m \in fromWorker : m.id = calls[d].requestId /\ m.result # << >>

\* the fields of a params object that cv.HoughCircles is given
HoughFields ==
  {"dp", "minDistance", "cannyThreshold", "circleThreshold", "minRadius", "maxRadius"}

\* the cv calls of a handler run were made with the params object `params`:
\* every field it has is passed as it is, the kernel size coerced to odd
MadeWith(call, params) ==
  /\ \A f \in HoughFields \cap DOMAIN params : call.HoughCircles[f] = params[f]
  /\ "blurKernelSize" \in DOMAIN params =>
       /\ call.GaussianBlur.width = call.GaussianBlur.height
       /\ CoercedKernel(params, call.GaussianBlur.width)

\* C26: the detection parameters used for a request are exactly those the
\* caller supplied with that request: none is replaced by a default when
\* supplied, none is taken from another request.
C26_SuppliedParamsUsed ==
  \A call \in cvCalls : MadeWith(call, ParamsOf(call.owner))

\* the same for the handler runs of the worker thread alone
WorkerSuppliedParamsUsed == variant = "worker" => C26_SuppliedParamsUsed

\* the fraction lies in [0, 1] (its denominator is positive)
InUnit(a) == 0 <= a[1] /\ a[1] <= a[2]

Normalised(detection) ==
  /\ InUnit(detection.confidence)
  /\ InUnit(detection.bbox.x) /\ InUnit(detection.bbox.y)
  /\ InUnit(detection.bbox.width) /\ InUnit(detection.bbox.height)

\* C27: every Detection has a confidence within [0,1] and all four
\* bounding-box components within [0,1], for every circle the backend may
\* report, circles that extend past the image border included.
C27_DetectionsNormalised == Converted => Normalised(conversion.detection[1])

\* the circle at hand lies within the image
CircleInsideImage ==
  LET d == conversion.d[1] IN
  /\ d.radius <= d.x /\ d.x + d.radius <= conversion.width
  /\ d.radius <= d.y /\ d.y + d.radius <= conversion.height

\* the same for the circles that lie within the image
InsideDetectionsNormalised ==
  (Converted /\ CircleInsideImage) => Normalised(conversion.detection[1])

\* detections has one entry per circle, the i-th made of the i-th circle
InDiscoveryOrder(detections, circles) ==
  /\ Len(detections) = Len(circles)
  /\ \A i \in 1..Len(circles) :
       /\ FracEq(detections[i].bbox.x, <<circles[i].x - circles[i].radius, ImageWidth>>)
       /\ FracEq(detections[i].bbox.y, <<circles[i].y - circles[i].radius, ImageHeight>>)
       /\ FracEq(detections[i].bbox.width, <<2 * circles[i].radius, ImageWidth>>)
       /\ FracEq(detections[i].bbox.height, <<2 * circles[i].radius, ImageHeight>>)

\* C28: the detections of a DetectionResult have one entry per circle the
\* backend reported, in the order it reported them; they are never reordered,
\* filtered or deduplicated, in the worker, on the way to the caller, or in
\* detectWithOpenCV.
C28_DiscoveryOrder ==
  [][/\ \A j \in jobs, circles \in TestCircleLists :
          (\E rnd \in [1..Len(circles) -> RandomDraws] : WorkerFinishResult(j, circles, rnd)) =>
            \E r \in fromWorker' \ fromWorker :
              /\ r.id = j.id /\ r.result # << >>
              /\ InDiscoveryOrder(r.result[1].detections, circles)
     /\ \A m \in fromWorker :
          (WorkerOnMessage(m, FALSE) /\ m.result # << >> /\ m.id \in DOMAIN requests) =>
            /\ Len(settlements'[CallOf(m.id)]) = 1
            /\ settlements'[CallOf(m.id)][1].kind = "resolve"
            /\ settlements'[CallOf(m.id)][1].value[1].detections = m.result[1].detections
     /\ \A c \in CallIds, circles \in TestCircleLists :
          (\E rnd \in [1..Len(circles) -> RandomDraws] : OpenCVImageLoad(c, circles, rnd)) =>
            /\ Len(settlements'[c]) = 1 /\ settlements'[c][1].kind = "resolve"
            /\ InDiscoveryOrder(settlements'[c][1].value[1].detections, circles)]_vars

\* the worker engine has resolved a request with the two detections of the
\* test, the circle (10, 20, 5) first and the circle (30, 40, 15) second
C28_Witness ==
  \E c \in CallIds :
    /\ calls[c].path = "worker" /\ Len(settlements[c]) = 1
    /\ settlements[c][1].kind = "resolve"
    /\ LET detections == settlements[c][1].value[1].detections IN
         /\ Len(detections) = 2
         /\ detections[1].bbox.x = <<5, 200>> /\ detections[1].bbox.width = <<10, 200>>
         /\ detections[2].bbox.x = <<15, 200>> /\ detections[2].bbox.width = <<30, 200>>

\* the message says that OpenCV is not there
SaysNotLoaded(message) ==
  \/ Contains(message, "OpenCV is not ready in worker. Failed to load from ")
  \/ Contains(message, "OpenCV not loaded")

\* a request received by a worker whose OpenCV is not loaded is answered with
\* a 'not loaded' error, and never with a result
NotLoadedInWorker ==
  /\ \A m \in toWorker :
       (WorkerReceive(m) /\ ~cvReady) =>
         \E r \in fromWorker' \ fromWorker :
           /\ r.id = m.id /\ r.result = << >> /\ r.error # << >>
           /\ SaysNotLoaded(r.error[1].message)
  /\ \A j \in jobs :
       (j.mock /\ j \notin jobs') =>
         \A r \in fromWorker' \ fromWorker : r.id = j.id => r.result = << >>

\* the 'not loaded' answer rejects the request, and so does detectWithOpenCV
\* without window.cv
NotLoadedOnMainThread ==
  /\ \A m \in fromWorker, keep \in BOOLEAN :
       (/\ WorkerOnMessage(m, keep) /\ m.id \in DOMAIN requests
        /\ m.error # << >> /\ SaysNotLoaded(m.error[1].message)) =>
         /\ Len(settlements'[CallOf(m.id)]) = 1
         /\ settlements'[CallOf(m.id)][1].kind = "reject"
         /\ SaysNotLoaded(ErrorOf(settlements'[CallOf(m.id)][1]).message)
  /\ \A inp \in Inputs :
       DetectWithOpenCV(inp, FALSE) =>
         /\ Len(settlements'[Len(calls')]) = 1
         /\ settlements'[Len(calls')][1].kind = "reject"
         /\ SaysNotLoaded(ErrorOf(settlements'[Len(calls')][1]).message)

\* C29: when OpenCV is not loaded, the request is rejected with a
\* 'not loaded' error rather than resolved with a result.
C29_NotLoadedRejects == [][NotLoadedInWorker /\ NotLoadedOnMainThread]_vars

\* C30: during bulk processing the object URL created for each file is
\* revoked exactly once, after that file's detection has settled, whether it
\* succeeded or failed; after a batch of n processed files exactly n URLs were
\* created and n revoked.
C30_ObjectURLsRevokedOnce ==
  [][/\ bulk'.revoked # bulk.revoked =>
          /\ bulk.state = "awaiting" /\ Settled(bulk.call)
          /\ bulk'.revoked = Append(bulk.revoked, bulk.created[Len(bulk.created)])
     /\ \A k, l \in 1..Len(bulk'.created) : bulk'.created[k] = bulk'.created[l] => k = l
     /\ \A k, l \in 1..Len(bulk'.revoked) : bulk'.revoked[k] = bulk'.revoked[l] => k = l
     /\ \A k \in 1..Len(bulk'.revoked) : bulk'.revoked[k] = bulk'.created[k]
     /\ Len(bulk'.created) = Len(bulk'.revoked) + (IF bulk'.state = "awaiting" THEN 1 ELSE 0)
     /\ bulk'.state = "done" =>
          /\ Len(bulk'.created) = bulk'.i /\ Len(bulk'.revoked) = bulk'.i
          /\ \A c \in 1..bulk'.i : Settled(c)']_vars

\* a batch of two files has been processed, one detection succeeded and one
\* failed, and both URLs were revoked
C30_Witness ==
  /\ bulk.state = "done" /\ Len(bulk.files) = 2
  /\ Len(bulk.created) = 2 /\ bulk.revoked = bulk.created
  /\ bulk.successfulUploads = 1 /\ bulk.aFileFailed

\* the calls of the batch that is awaiting its last detectBalls
BatchCalls == {c \in CallIds : bulk.call - bulk.i < c /\ c <= bulk.call}
Succeeded(c) == Settled(c) /\ settlements[c][1].kind = "resolve"
\* the results of the calls lo..hi that resolved, in the order of the calls
RECURSIVE ResultsOfCalls(_, _)
ResultsOfCalls(lo, hi) ==
  IF lo > hi THEN << >>
  ELSE (IF Succeeded(lo) THEN <<settlements[lo][1].value[1]>> ELSE << >>)
       \o ResultsOfCalls(lo + 1, hi)
Successes == Cardinality({c \in BatchCalls : Succeeded(c)})
\* the step on which processBulkImages ends
BatchEnds == bulk.state = "awaiting" /\ bulk'.state = "done"
\* the summary names s successes out of n files
Reports(summary, s, n) ==
  /\ summary # << >>
  /\ \/ /\ s = n /\ summary[1].kind = "success"
        /\ summary[1].message = <<"Processed all ", ToString(n), " images successfully.">>
     \/ /\ summary[1].kind = "info"
        /\ summary[1].message[2] = ToString(s) /\ summary[1].message[4] = ToString(n)
\* the last awaited detectBalls was rejected with a message that contains one
\* of the two phrases that end the loop
EndedByPhrase ==
  /\ Settled(bulk.call) /\ settlements[bulk.call][1].kind = "reject"
  /\ LET message == ErrorOf(settlements[bulk.call][1]).message IN
       \/ Includes(message, "API key is required")
       \/ Includes(message, "Roboflow API error")

BatchResumes == bulk.state = "awaiting" /\ bulk'.revoked # bulk.revoked
\* the awaited detectBalls was rejected with a message that contains phrase
RejectedWith(phrase) ==
  /\ Settled(bulk.call) /\ settlements[bulk.call][1].kind = "reject"
  /\ Includes(ErrorOf(settlements[bulk.call][1]).message, phrase)

\* C32: during bulk processing, when the engine rejects a file with an
\* 'OpenCV is not loaded' error the batch halts: detectBalls is not called
\* for any remaining file and no result is added.
C32_NotLoadedHaltsBatch ==
  [][BatchResumes /\ RejectedWith("OpenCV is not loaded") =>
       /\ bulk'.state = "done"
       /\ calls' = calls
       /\ bulk'.newResults = bulk.newResults]_vars

\* the awaited detectBalls was rejected
Rejected == Settled(bulk.call) /\ settlements[bulk.call][1].kind = "reject"
\* the batch ends at the failing file: nothing more is submitted
BatchAborts == bulk'.state = "done" /\ calls' = calls
\* the failing file is skipped: the next file of the batch is submitted
NextFileSubmitted ==
  /\ bulk'.state = "awaiting" /\ bulk'.i = bulk.i + 1
  /\ Len(calls') = Len(calls) + 1
  /\ calls'[Len(calls')].fileName = bulk.files[bulk.i + 1]
\* the rejection is the engine's credential-missing error
CredentialMissingRejected ==
  Rejected /\ ErrorOf(settlements[bulk.call][1]).message = ApiKeyRequiredError.message

C34_BulkIsSequential ==
  [][/\ Len(calls') > Len(calls) => \A c \in CallIds : Settled(c)
     /\ Cardinality(DOMAIN requests') <= 1
     /\ Cardinality({c \in 1..Len(calls') : settlements'[c] = << >>}) <= 1]_vars

\* the request of the second file of a batch is pending at the remote engine,
\* the request of the first file has settled
C34_Witness ==
  /\ bulk.state = "awaiting" /\ bulk.i = 2
  /\ Settled(bulk.call - 1) /\ ~Settled(bulk.call)
  /\ DOMAIN requests = {calls[bulk.call].requestId}

\* processImage or processBulkImages has started and not yet ended
DetectionRunning == bulk.single \/ bulk.state = "awaiting"

\* C35: the processing flag is true from the moment a single or bulk
\* detection is started until its last request has settled, and is false
\* afterwards whether the detection succeeded or failed; it never remains
\* true once no detection is running.
C35_ProcessingFlag ==
  [][/\ Len(calls') > Len(calls) => bulk'.isProcessing
     /\ (\E c \in 1..Len(calls') : settlements'[c] = << >>) => bulk'.isProcessing
     /\ DetectionRunning' => bulk'.isProcessing
     /\ ~DetectionRunning' => ~bulk'.isProcessing]_vars

\* a single detection was started, its request was rejected, and the flag is
\* false again
C35_Witness ==
  /\ bulk.state = "idle" /\ ~bulk.single /\ bulk.call > 0
  /\ Rejected /\ bulk.results = << >> /\ ~bulk.isProcessing

\* C36: when a detector component unmounts it terminates its detection
\* engine, so every request still pending at unmount is rejected instead of
\* remaining pending.
C36_UnmountTerminatesEngine ==
  [][bulk.mounted /\ ~bulk'.mounted =>
       /\ requests' = EmptyMap
       /\ \A c \in CallIds : settlements[c] = << >> =>
            /\ settlements'[c] # << >>
            /\ settlements'[c][1].kind = "reject"]_vars

\* C37: in every reachable engine state the set of tokens with an armed
\* timeout timer equals the set of tokens in the pending map: every path that
\* removes a pending entry also clears its timer, and a fired timer removes
\* its own entry.
C37_TimersMatchPending ==
  variant \in {"worker", "remote"} => timers = Timers(requests)

\* a request was answered and its timer is no longer armed, while another
\* request is pending with its timer armed
C37_Witness ==
  /\ variant \in {"worker", "remote"}
  /\ \E c \in CallIds : Settled(c) /\ settlements[c][1].kind = "resolve" /\ c \notin timers
  /\ \E k \in DOMAIN requests : requests[k].timer \in timers /\ ~Settled(requests[k].promise)

\* C38: in every reachable state of the worker-based engine, if the engine
\* holds no worker (never created, lost to a fatal error, or terminated) then
\* the pending map is empty, so terminateWorker doing nothing when there is
\* no worker leaves no pending request unrejected.
C38_NoWorkerNoPending ==
  variant = "worker" /\ worker = "null" =>
    /\ requests = EmptyMap
    /\ \A c \in CallIds : calls[c].path = "worker" /\ pc = 0 => Settled(c)

\* the engine lost its worker while a request was pending: the request was
\* rejected and the pending map is empty
C38_Witness ==
  /\ variant = "worker" /\ worker = "null" /\ requests = EmptyMap
  /\ \E c \in CallIds :
       /\ calls[c].path = "worker" /\ Settled(c)
       /\ settlements[c][1].kind = "reject"
       /\ Contains(ErrorOf(settlements[c][1]).message, "Worker failed: ")

\* response m is handed to worker.onmessage while its token is pending
Delivered(m) == m \in fromWorker /\ m \notin fromWorker' /\ m.id \in DOMAIN requests
\* the promise of the request that m answers is rejected, once, with message
RejectedOnceWith(m, message) ==
  LET c == requests[m.id].promise IN
    /\ settlements[c] = << >> /\ Len(settlements'[c]) = 1
    /\ settlements'[c][1].kind = "reject"
    /\ ErrorOf(settlements'[c][1]).message = message

\* C39: a worker response for a pending token that carries neither result
\* nor error rejects that request with an invalid-message error and removes
\* its entry and timer; a response that carries both error and result rejects
\* the request with the error and never resolves it.
C39_MalformedResponses ==
  [][\A m \in fromWorker : Delivered(m) =>
       /\ m.result = << >> /\ m.error = << >> =>
            /\ RejectedOnceWith(m, <<"Worker returned an invalid message format.">>)
            /\ m.id \notin DOMAIN requests'
            /\ requests[m.id].timer \notin timers'
       /\ m.result # << >> /\ m.error # << >> =>
            /\ RejectedOnceWith(m, OrElse(m.error[1].message, <<"Unknown worker error">>))
            /\ m.id \notin DOMAIN requests']_vars

\* a request was answered with neither result nor error: it is rejected with
\* the invalid-message error, its entry and its timer are gone
C39_Witness ==
  \E c \in CallIds :
    /\ settlements[c] = <<Reject(Error(<<"Error">>,
                                       <<"Worker returned an invalid message format.">>))>>
    /\ calls[c].requestId \notin DOMAIN requests /\ c \notin timers

=============================================================================
